---- MODULE Spec2Model ----
(***************************************************************************)
(* A model of the starpc C++ runtime (src/srpc): the per-call state        *)
(* machine CommonRPC with its ClientRPC and ServerRPC specialisations, the *)
(* MsgStream view, the packet constructors and validation, and the         *)
(* in-memory transport of the end-to-end test.                             *)
(*                                                                         *)
(* Every method that takes mtx_ for its whole body is one action guarded   *)
(* by the mutex being free.  Methods that touch atomics or the writer      *)
(* outside the mutex are split at those points.  std::condition_variable   *)
(* is modelled by the program counters rd_presleep / rd_sleep / rd_wake of *)
(* the thread inside CommonRPC::ReadOne.                                   *)
(***************************************************************************)
EXTENDS Integers, Sequences, FiniteSets, TLC

\* ---------------------------------------------------------------- bounds
MaxIn == 2        \* inbound transport events delivered to one call
MaxOps == 3       \* user operations invoked on one call
NumMsgs == 2      \* messages the server-streaming handler sends (end to end)
NumEcho == 2      \* messages the client sends to the echoing handler
MaxReg == 2       \* Register calls on one Mux that return OK
MaxFallback == 2  \* fallback invokers a Mux is constructed with

\* ------------------------------------------------------------- universes
Sides == {"client", "server"}
Threads == {"t1", "t2"}
Reader == "t1"    \* the thread that reads; the other one writes and closes
NoThread == "none"
\* The modes that run a client and a server over the in-memory transport:
\* TestServerStream, TestBidiStream (also with the first message carried
\* by CallStart, as TestUnary sends it) and TestClientStream.
E2EModes == {"e2e", "bidi", "bidi1", "cstream", "invoke"}
\* A ServerRPC fed by its transport directly ("server") or by
\* HandleRpcStream through an RpcStream ("tunnel").
ServerModes == {"server", "tunnel", "wserver"}
ArgErrs == {"OK", "Unimplemented"}
CloseErrs == {"OK", "EOF"}

\* ErrorString: the display string placed in CallData.error.
ErrorString(err) ==
  CASE err = "OK" -> "ok"
    [] err = "Unimplemented" -> "unimplemented"
    [] err = "Completed" -> "unexpected packet after rpc was completed"
    [] err = "UnrecognizedPacket" -> "unrecognized packet type"
    [] err = "EmptyPacket" -> "invalid empty packet"
    [] err = "InvalidMessage" -> "invalid message"
    [] err = "EmptyMethodID" -> "method id empty"
    [] err = "EmptyServiceID" -> "service id empty"
    [] err = "NoAvailableClients" -> "no available rpc clients"
    [] err = "NilWriter" -> "writer cannot be nil"
    [] err = "Canceled" -> "canceled"
    [] err = "EOF" -> "EOF"
    [] OTHER -> "unknown error"

\* ---------------------------------------------------------------- packets
\* srpc::Packet as a record of uniform shape; body names the oneof case.
Pkt(body, svc, mth, data, diz, complete, error, cancel) ==
  [body |-> body, svc |-> svc, mth |-> mth, data |-> data, diz |-> diz,
   complete |-> complete, error |-> error, cancel |-> cancel]

NewCallStartPacket(service, method, data, data_is_zero) ==
  Pkt("CallStart", service, method, data, data_is_zero, FALSE, "", FALSE)

NewCallDataPacket(data, data_is_zero, complete, err) ==
  Pkt("CallData", "", "", data, data_is_zero, (err # "OK") \/ complete,
      IF err # "OK" THEN ErrorString(err) ELSE "", FALSE)

NewCallCancelPacket ==
  Pkt("CallCancel", "", "", "", FALSE, FALSE, "", TRUE)

\* A packet whose oneof body is not set.
NoBodyPacket == Pkt("None", "", "", "", FALSE, FALSE, "", FALSE)

\* Events a PacketWriter sees that are not packets.
CloseEvent == Pkt("Close", "", "", "", FALSE, FALSE, "", FALSE)
StrayEvent == Pkt("Stray", "", "", "", FALSE, FALSE, "", FALSE)

\* A ValidateCallStart that looks at the service first.
ValidateCallStartServiceFirst(pkt) ==
  IF pkt.svc = "" THEN "EmptyServiceID"
  ELSE IF pkt.mth = "" THEN "EmptyMethodID"
  ELSE "OK"

ValidateCallStart(pkt) ==
  IF pkt.mth = "" THEN "EmptyMethodID"
  ELSE IF pkt.svc = "" THEN "EmptyServiceID"
  ELSE "OK"

ValidateCallData(pkt) ==
  IF pkt.data = "" /\ ~pkt.complete /\ pkt.error = "" /\ ~pkt.diz
  THEN "EmptyPacket" ELSE "OK"

ValidatePacket(pkt) ==
  CASE pkt.body = "CallStart" -> ValidateCallStart(pkt)
    [] pkt.body = "CallData" -> ValidateCallData(pkt)
    [] pkt.body = "CallCancel" -> "OK"
    [] OTHER -> "UnrecognizedPacket"

\* The packets a transport may deliver to a call: well-formed and
\* malformed CallStart, CallData with a payload, with the zero-length
\* payload, with completion (alone and after a payload), with an error and
\* with nothing, CallCancel, and a packet without body.
InPackets ==
  { NewCallStartPacket("svc", "mth", "a", FALSE),
    NewCallStartPacket("svc", "mth", "", FALSE),
    NewCallStartPacket("", "mth", "a", FALSE),
    NewCallStartPacket("svc", "", "a", FALSE),
    Pkt("CallData", "", "", "a", FALSE, FALSE, "", FALSE),
    Pkt("CallData", "", "", "", TRUE, FALSE, "", FALSE),
    Pkt("CallData", "", "", "", FALSE, TRUE, "", FALSE),
    Pkt("CallData", "", "", "b", FALSE, TRUE, "", FALSE),
    Pkt("CallData", "", "", "", FALSE, FALSE, "unimplemented", FALSE),
    Pkt("CallData", "", "", "", FALSE, FALSE, "", FALSE),
    Pkt("CallCancel", "", "", "", FALSE, FALSE, "", TRUE),
    Pkt("CallCancel", "", "", "", FALSE, FALSE, "", FALSE),
    NoBodyPacket }

\* ------------------------------------------------------------------ state
VARIABLES
  mode,       \* "client" (ClientRPC used directly), "newstream"
              \* (Client::NewStream), "server" (ServerRPC), or one of
              \* E2EModes
  rpc,        \* per side: the CommonRPC fields
  mtx,        \* per side: holder of mtx_ across steps (NoThread when free)
  th,         \* per thread: position inside the operation it executes
  worker,     \* ServerRPC::invoke_thread_: position inside InvokeRPC
  herr,       \* err local of InvokeRPC
  wlog,       \* per side: what the call's PacketWriter was asked to do
  wdeleted,   \* per side: the PacketWriter object has been deleted
  ub,         \* a deleted PacketWriter was used
  arrived,    \* per side: payloads of packets handled before data_closed_
  delivered,  \* per side: payloads returned with OK by ReadOne
  termRet,    \* per side: the latest Error other than OK that a ReadOne
              \* returned ("none" before the first)
  cancelOK,   \* per side: some WriteCallCancel returned OK
  closes,     \* per side: number of Close calls completed on a started call
  last,       \* the call or HandlePacket that returned most recently and its Error
  rpos,       \* per side: packets of the peer's writer consumed so far
  tdone,      \* per side: the transport reader loop has exited
  started,    \* per side: progress of ClientRPC::Start ("no", "calling",
              \* "ok", "failed")
  nIn,        \* inbound events so far
  nOps,       \* user operations so far
  vpkt,       \* the packet handed to ValidatePacket
  vres,       \* what ValidatePacket returned ("none" before the call)
  services,   \* Mux::services_: service id -> method id -> handler
  fallback,   \* Mux::fallback_: the invokers given to the constructor
  regLog,     \* the handlers whose Register returned OK, in call order
  mres,       \* the Mux operation that returned most recently
  reg,        \* the Register that holds Mux::mtx_ exclusively: its
              \* handler ("none" when there is no such Register), the
              \* method ids still to store, services_ when it locked
  tun,        \* the RpcStream that carries the call: HandleRpcStream's
              \* position and the handshake (NoTunnel when there is none)
  exec,       \* ClientImpl::ExecCall: its position, whether the stream
              \* was opened, what it returned (NoExec outside ExecCall)
  pump        \* ReadPump of a tunneled client call: its position, the
              \* envelopes Recv returned, the bytes given to msg_handler,
              \* the close_handler calls (NoPump when there is none)

\* The state of a Mux.
muxVars == <<services, fallback, regLog, mres, reg>>

\* The state that belongs to no call.
pureVars == <<vpkt, vres, muxVars, tun, exec, pump>>

vars == <<mode, pureVars, rpc, mtx, th, worker, herr, wlog, wdeleted, ub,
          arrived, delivered, termRet, cancelOK, closes, last, rpos, tdone, started,
          nIn, nOps>>

\* CommonRPC::Init
InitRPC ==
  [data_queue |-> <<>>, data_closed |-> FALSE, remote_err |-> "OK",
   local_completed |-> FALSE, canceled |-> FALSE, writer |-> FALSE,
   service |-> "", method |-> ""]

\* ServerRPC::ServerRPC: Init(), then the writer is attached.
InitServerRPC == [InitRPC EXCEPT !.writer = TRUE]

\* ClientRPC::ClientRPC: Init(), then service and method are recorded.
InitClientRPC == [InitRPC EXCEPT !.service = "svc", !.method = "mth"]

NoArg ==
  [data |-> "", diz |-> FALSE, complete |-> FALSE, err |-> "OK",
   wfm |-> FALSE]
IdleThread == [pc |-> "idle", ctx_done |-> FALSE, arg |-> NoArg]

\* The side a thread operates on.
SideOf(t) ==
  CASE mode \in ServerModes -> "server"
    [] mode \in E2EModes -> (IF t = "t1" THEN "client" ELSE "server")
    [] OTHER -> "client"

Live == CASE mode \in ServerModes -> {"server"}
          [] mode \in E2EModes -> Sides
          [] OTHER -> {"client"}

Peer(s) == IF s = "client" THEN "server" ELSE "client"

InitCommon ==
  /\ rpc = [s \in Sides |-> IF s = "server" THEN InitServerRPC
                            ELSE InitClientRPC]
  /\ mtx = [s \in Sides |-> NoThread]
  /\ th = [t \in Threads |-> IdleThread]
  /\ worker = "none"
  /\ herr = "OK"
  /\ wlog = [s \in Sides |-> <<>>]
  /\ wdeleted = [s \in Sides |-> FALSE]
  /\ ub = FALSE
  /\ arrived = [s \in Sides |-> <<>>]
  /\ delivered = [s \in Sides |-> <<>>]
  /\ termRet = [s \in Sides |-> "none"]
  /\ cancelOK = [s \in Sides |-> FALSE]
  /\ closes = [s \in Sides |-> 0]
  /\ last = [op |-> "none", res |-> "none", noop |-> FALSE]
  /\ rpos = [s \in Sides |-> 0]
  /\ tdone = [s \in Sides |-> FALSE]
  /\ started = [s \in Sides |-> "no"]
  /\ nIn = 0
  /\ nOps = 0

\* What a Mux operation returned; the fields an operation does not have
\* keep their defaults.
MuxRet(op, svc, mth, handler, called, found, err) ==
  [op |-> op, svc |-> svc, mth |-> mth, handler |-> handler,
   called |-> called, found |-> found, err |-> err]

\* Mux::Mux without fallback invokers, before any call.
\* No Register is inside its critical section.
NoReg == [h |-> "none", todo |-> {}, before |-> <<>>]

InitMuxState ==
  /\ services = <<>>
  /\ reg = NoReg
  /\ regLog = <<>>
  /\ mres = MuxRet("none", "", "", "none", <<>>, FALSE, "OK")

\* No RpcStream is open.  getter is what the RpcStreamGetter will answer,
\* relfn whether it hands out a release function, released how often that
\* was called, ack the error string of the RpcAck sent ("none" before it
\* is sent), ret what HandleRpcStream returned, open the position or the
\* result of the client's OpenRpcStream, eof that the outer Recv gave EOF.
NoTunnel ==
  [pc |-> "none", getter |-> "ok", relfn |-> FALSE, released |-> 0,
   ack |-> "none", ret |-> "none", open |-> "idle", eof |-> FALSE]

\* No read pump is running.
NoPump ==
  [pc |-> "none", env |-> <<>>, fwd |-> <<>>, closes |-> 0, cerr |-> "none",
   end |-> "none"]

\* No ExecCall is running.  late: a callback given to open_stream_ ran
\* after ExecCall had returned and destroyed its ClientRPC.
NoExec ==
  [pc |-> "none", ret |-> "none", opened |-> FALSE, read |-> FALSE,
   late |-> FALSE]

\* No packet is under validation and the Mux is not used.
InitPure ==
  /\ vpkt = NoBodyPacket
  /\ vres = "none"
  /\ tun = NoTunnel
  /\ exec = NoExec
  /\ pump = NoPump
  /\ InitMuxState
  /\ fallback = <<>>

Init ==
  /\ mode \in {"client", "newstream", "server"}
  /\ InitCommon
  /\ InitPure

\* ------------------------------------------------------------ the writer
\* PacketWriter::WritePacket on the writer of side s.  Using a deleted
\* writer is undefined: the call may do nothing or push a stray frame.
WriterWrite(s, pkt, log) ==
  IF wdeleted[s] THEN {log, Append(log, StrayEvent)}
  ELSE {Append(log, pkt)}

\* PacketWriter::Close.  Consecutive closes are recorded once.
WriterClose(s, log) ==
  IF wdeleted[s] THEN {log, Append(log, StrayEvent)}
  ELSE IF log # <<>> /\ log[Len(log)] = CloseEvent THEN {log}
  ELSE {Append(log, CloseEvent)}

\* A notify_all that wakes nobody.
NoNotify(s, thr) == thr

\* cv_.notify_all(): every thread sleeping in cv_.wait on side s wakes.
NotifyAll(s, thr) ==
  [t \in Threads |->
     IF SideOf(t) = s /\ thr[t].pc = "rd_sleep"
     THEN [thr[t] EXCEPT !.pc = "rd_wake"] ELSE thr[t]]

\* The thread leaves the operation it was in.
Return(thr, t) == [thr EXCEPT ![t] = IdleThread]


\* -------------------------------------------------- CommonRPC: inbound side
\* A payload test that overlooks data_is_zero.
HasData(pkt) == pkt.data # ""

\* !pkt.data().empty() || pkt.data_is_zero()
HasPayload(pkt) == pkt.data # "" \/ pkt.diz

\* A queue that takes new payloads at the front.
PushFront(q, d) == <<d>> \o q

\* data_queue_.push_back(pkt.data())
PushBack(q, d) == Append(q, d)

\* A HandleCallData whose complete discards what is still queued.
CallDataUpdDrop(r, pkt) ==
  LET hasErr == pkt.error # ""
      complete == pkt.complete \/ hasErr
  IN [r EXCEPT
        !.data_queue = IF complete THEN <<>>
                       ELSE IF pkt.data # "" \/ pkt.diz THEN Append(@, pkt.data)
                       ELSE @,
        !.remote_err = IF hasErr THEN "Unimplemented" ELSE @,
        !.data_closed = complete]

\* A HandleCallData for which an error does not end the data.
CallDataUpdErrOpen(r, pkt) ==
  [r EXCEPT
     !.data_queue = IF HasPayload(pkt) THEN PushBack(@, pkt.data) ELSE @,
     !.remote_err = IF pkt.error # "" THEN "Unimplemented" ELSE @,
     !.data_closed = pkt.complete]

\* The fields HandleCallData leaves in the call that is not yet data_closed_.
CallDataUpd(r, pkt) ==
  LET hasErr == pkt.error # ""
      complete == pkt.complete \/ hasErr
  IN [r EXCEPT
        !.data_queue = IF HasPayload(pkt) THEN PushBack(@, pkt.data) ELSE @,
        !.remote_err = IF hasErr THEN "Unimplemented" ELSE @,
        !.data_closed = complete]

\* CommonRPC::HandleCallData
HandleCallData(s, pkt) ==
  /\ mtx[s] = NoThread
  /\ IF rpc[s].data_closed
     THEN UNCHANGED <<rpc, th, arrived>>
     ELSE /\ rpc' = [rpc EXCEPT ![s] = CallDataUpd(@, pkt)]
          /\ arrived' = [arrived EXCEPT
               ![s] = IF HasPayload(pkt) THEN Append(@, pkt.data) ELSE @]
          /\ th' = NotifyAll(s, th)
  /\ UNCHANGED <<wlog, ub, worker>>

\* A HandleCallData that never objects.
HandleCallDataErrOK(s, pkt) == "OK"

HandleCallDataErr(s, pkt) ==
  IF rpc[s].data_closed /\ ~pkt.complete THEN "Completed" ELSE "OK"

\* A stream close that records its error over an earlier one.
StreamCloseUpdOverwrite(r, close_err) ==
  [r EXCEPT
     !.remote_err = IF close_err # "OK" THEN close_err ELSE @,
     !.data_closed = TRUE,
     !.canceled = TRUE]

\* The fields both HandleStreamClose variants set under the mutex.
StreamCloseUpd(r, close_err) ==
  [r EXCEPT
     !.remote_err = IF close_err # "OK" /\ @ = "OK" THEN close_err ELSE @,
     !.data_closed = TRUE,
     !.canceled = TRUE]

\* CommonRPC::HandleStreamClose
HandleStreamClose(s, close_err) ==
  /\ mtx[s] = NoThread
  /\ rpc' = [rpc EXCEPT ![s] = StreamCloseUpd(@, close_err)]
  /\ IF rpc[s].writer
     THEN /\ \E l \in WriterClose(s, wlog[s]) : wlog' = [wlog EXCEPT ![s] = l]
          /\ ub' = (ub \/ wdeleted[s])
     ELSE UNCHANGED <<wlog, ub>>
  /\ th' = NotifyAll(s, th)
  /\ UNCHANGED <<arrived, worker>>

\* CommonRPC::HandleCallCancel
HandleCallCancel(s) == HandleStreamClose(s, "Canceled")

\* ClientRPC::HandleStreamClose (hides the CommonRPC method; the writer is
\* left alone).
ClientHandleStreamClose(s, close_err) ==
  /\ mtx[s] = NoThread
  /\ rpc' = [rpc EXCEPT ![s] = StreamCloseUpd(@, close_err)]
  /\ th' = NotifyAll(s, th)
  /\ UNCHANGED <<wlog, ub, arrived, worker>>

\* ServerRPC::HandleCallStart
\* A start test that looks at data_closed_ only.
StartRejectedIfClosed(r) == r.data_closed

StartRejected(r) == r.method # "" \/ r.service # "" \/ r.data_closed

HandleCallStart(s, pkt) ==
  /\ mtx[s] = NoThread
  /\ IF StartRejected(rpc[s])
     THEN UNCHANGED <<rpc, th, arrived, worker>>
     ELSE /\ rpc' = [rpc EXCEPT
               ![s].service = pkt.svc,
               ![s].method = pkt.mth,
               ![s].data_queue =
                  IF HasPayload(pkt) THEN PushBack(@, pkt.data) ELSE @]
          /\ arrived' = [arrived EXCEPT
               ![s] = IF HasPayload(pkt) THEN Append(@, pkt.data) ELSE @]
          /\ th' = NotifyAll(s, th)
          /\ worker' = "handler"
  /\ UNCHANGED <<wlog, ub>>

HandleCallStartErr(s, pkt) ==
  IF s = "client" THEN "UnrecognizedPacket"
  ELSE IF StartRejected(rpc[s]) THEN "Completed" ELSE "OK"

\* A HandlePacket that dispatches a packet it has not validated.
HandlePacketUnchecked(s, pkt) ==
  CASE pkt.body = "CallStart" ->
         IF s = "client"
         THEN UNCHANGED <<rpc, th, arrived, worker, wlog, ub>>
         ELSE HandleCallStart(s, pkt)
    [] pkt.body = "CallData" -> HandleCallData(s, pkt)
    [] OTHER ->
         IF pkt.cancel THEN HandleCallCancel(s)
         ELSE UNCHANGED <<rpc, th, arrived, worker, wlog, ub>>

\* ClientRPC::HandlePacket / ServerRPC::HandlePacket: validate, then
\* dispatch on the body.  ClientRPC::HandleCallStart rejects the packet.
HandlePacket(s, pkt) ==
  IF ValidatePacket(pkt) # "OK"
  THEN UNCHANGED <<rpc, th, arrived, worker, wlog, ub>>
  ELSE CASE pkt.body = "CallStart" ->
              IF s = "client"
              THEN UNCHANGED <<rpc, th, arrived, worker, wlog, ub>>
              ELSE HandleCallStart(s, pkt)
         [] pkt.body = "CallData" -> HandleCallData(s, pkt)
         [] OTHER ->
              IF pkt.cancel THEN HandleCallCancel(s)
              ELSE UNCHANGED <<rpc, th, arrived, worker, wlog, ub>>

\* The Error HandlePacket returns, from the state it is called in.
HandlePacketErr(s, pkt) ==
  IF ValidatePacket(pkt) # "OK" THEN ValidatePacket(pkt)
  ELSE CASE pkt.body = "CallStart" -> HandleCallStartErr(s, pkt)
         [] pkt.body = "CallData" -> HandleCallDataErr(s, pkt)
         [] OTHER -> "OK"

\* The transport reader hands one received packet to the call.
TransportPacket(s, pkt) ==
  /\ mode \notin E2EModes /\ s \in Live
  /\ nIn < MaxIn
  /\ nIn' = nIn + 1
  /\ HandlePacket(s, pkt)
  /\ last' = [op |-> "HandlePacket", res |-> HandlePacketErr(s, pkt),
              noop |-> FALSE]
  /\ UNCHANGED <<mode, pureVars, mtx, herr, wdeleted, delivered, termRet, cancelOK,
                 closes, rpos, tdone, started, nOps>>

\* HandlePacketData with bytes that are no Packet: ParseFromString fails
\* and InvalidMessage is returned before the call is looked at.
TransportBadData(s) ==
  /\ mode \notin E2EModes /\ s \in Live
  /\ nIn < MaxIn
  /\ nIn' = nIn + 1
  /\ last' = [op |-> "HandlePacket", res |-> "InvalidMessage", noop |-> FALSE]
  /\ UNCHANGED <<mode, pureVars, rpc, mtx, th, worker, herr, wlog, wdeleted, ub,
                 arrived, delivered, termRet, cancelOK, closes, rpos, tdone,
                 started, nOps>>

\* The transport reports that the stream closed.
TransportClose(s, close_err) ==
  /\ mode \notin E2EModes /\ s \in Live
  /\ nIn < MaxIn
  /\ nIn' = nIn + 1
  /\ IF s = "client" THEN ClientHandleStreamClose(s, close_err)
     ELSE HandleStreamClose(s, close_err)
  /\ last' = [op |-> "HandleStreamClose", res |-> "OK", noop |-> FALSE]
  /\ UNCHANGED <<mode, pureVars, mtx, herr, wdeleted, delivered, termRet, cancelOK,
                 closes, rpos, tdone, started, nOps>>


\* ------------------------------------------------------- user operations
Arg(data, diz, complete, err, wfm) ==
  [data |-> data, diz |-> diz, complete |-> complete, err |-> err,
   wfm |-> wfm]

\* MsgStream::MsgSend: WriteCallData(msg_data, msg_data.empty(), false, OK)
MsgSendArg(d) == Arg(d, d = "", FALSE, "OK", FALSE)

\* MsgStream::CloseSend: WriteCallData("", false, true, OK)
CloseSendArg == Arg("", FALSE, TRUE, "OK", FALSE)

\* The arguments the model passes to WriteCallData and to Start.
WriteArgs ==
  { MsgSendArg("a"), CloseSendArg,
    Arg("", FALSE, FALSE, "Unimplemented", FALSE) }

StartArgs ==
  { Arg("a", FALSE, FALSE, "OK", TRUE),
    Arg("", FALSE, FALSE, "OK", FALSE) }

\* Start by itself: first_msg empty or not, with and without
\* write_first_msg.
StartInputs ==
  { Arg(d, FALSE, FALSE, "OK", w) : d \in {"", "a", "b"}, w \in BOOLEAN }

\* WriteCallData by itself: every combination of its arguments.
EmitArgs ==
  { Arg(d, z, c, e, FALSE) :
      d \in {"", "a"}, z \in BOOLEAN, c \in BOOLEAN,
      e \in {"OK", "Unimplemented"} }

\* The operations of the MsgStream view (MsgRecv is ReadOne).
StreamCall(op, a) ==
  \/ op \in {"ReadOne", "MsgClose"} /\ a = NoArg
  \/ op = "WriteCallData" /\ a \in {CloseSendArg, MsgSendArg("a")}

\* What a writer log holds besides Close events and stray frames.
IsPacket(e) == e.body \in {"CallStart", "CallData", "CallCancel"}
Packets(log) == SelectSeq(log, IsPacket)

\* Payload packets a writer log holds.
SentPayloads(log) ==
  SelectSeq(log, LAMBDA e : e.body = "CallData" /\ (e.data # "" \/ e.diz))

\* TestServerStream, the client: Start with the request, then ReadOne
\* until one fails, NumMsgs + 1 times at most.
ClientScript(op, a) ==
  \/ op = "Start" /\ started["client"] = "no"
       /\ a = Arg("a", FALSE, FALSE, "OK", TRUE)
  \/ op = "ReadOne" /\ a = NoArg /\ started["client"] = "ok"
       /\ termRet["client"] = "none"
       /\ Len(delivered["client"]) < NumMsgs + 1

\* The server-streaming method stub: it receives the request message
\* before it calls the implementation.
StubScript(op, a) ==
  /\ op = "ReadOne" /\ a = NoArg
  /\ delivered["server"] = <<>> /\ termRet["server"] = "none"

\* EchoServerImpl::EchoServerStream: Send NumMsgs copies of the request.
EchoServerStream(op, a) ==
  /\ op = "WriteCallData"
  /\ Len(delivered["server"]) = 1
  /\ a = MsgSendArg(delivered["server"][1])
  /\ Len(SentPayloads(wlog["server"])) < NumMsgs

\* A handler that sends up to NumMsgs messages and may close its send
\* side, in any order the stream allows.
HandlerScript(op, a) ==
  /\ op = "WriteCallData"
  /\ \/ a = MsgSendArg("a") /\ Len(SentPayloads(wlog["server"])) < NumMsgs
     \/ a = CloseSendArg /\ ~rpc["server"].local_completed

\* The k-th message body the echo clients send.
EchoPayload(k) == IF k % 2 = 1 THEN "a" ELSE "b"

\* The payloads a writer log carries, CallStart's included.
PayloadsOf(log) ==
  LET sel == SelectSeq(log, LAMBDA e :
               e.body \in {"CallStart", "CallData"} /\ (e.data # "" \/ e.diz))
  IN [i \in DOMAIN sel |-> sel[i].data]

\* Start of the echo clients: TestBidiStream and TestClientStream start
\* without a message, TestUnary with the request.
EchoStart(op, a) ==
  /\ op = "Start" /\ started["client"] = "no"
  /\ a = IF mode = "bidi1" THEN Arg(EchoPayload(1), FALSE, FALSE, "OK", TRUE)
         ELSE Arg("", FALSE, FALSE, "OK", FALSE)

\* The next message of an echo client: WriteCallData(req_data, false,
\* false, OK).
EchoSend(op, a) ==
  /\ op = "WriteCallData" /\ started["client"] = "ok"
  /\ ~rpc["client"].local_completed
  /\ Len(PayloadsOf(wlog["client"])) < NumEcho
  /\ a = Arg(EchoPayload(Len(PayloadsOf(wlog["client"])) + 1), FALSE, FALSE,
             "OK", FALSE)

\* TestBidiStream, the client: a send and a read by turns, NumEcho times,
\* then WriteCallData("", false, true, OK); a read that fails ends it.
BidiClientScript(op, a) ==
  LET sent == Len(PayloadsOf(wlog["client"]))
      got == Len(delivered["client"])
  IN \/ EchoStart(op, a)
     \/ termRet["client"] = "none" /\ sent = got /\ EchoSend(op, a)
     \/ op = "ReadOne" /\ a = NoArg /\ started["client"] = "ok"
          /\ termRet["client"] = "none" /\ got < sent
     \/ op = "WriteCallData" /\ a = CloseSendArg
          /\ termRet["client"] = "none" /\ got = NumEcho
          /\ ~rpc["client"].local_completed

\* TestClientStream, the client: the messages, then WriteCallData("",
\* false, true, OK), and only then the reads.
ClientStreamScript(op, a) ==
  LET sent == Len(PayloadsOf(wlog["client"]))
      got == Len(delivered["client"])
  IN \/ EchoStart(op, a)
     \/ EchoSend(op, a)
     \/ op = "WriteCallData" /\ a = CloseSendArg
          /\ sent = NumEcho /\ ~rpc["client"].local_completed
     \/ op = "ReadOne" /\ a = NoArg
          /\ rpc["client"].local_completed
          /\ termRet["client"] = "none" /\ got < sent

\* EchoServerImpl::EchoBidiStream: Recv, then Send what was received,
\* until a Recv or a Send fails.
EchoBidiStream(op, a) ==
  LET got == Len(delivered["server"])
      sent == Len(SentPayloads(wlog["server"]))
  IN /\ termRet["server"] = "none"
     /\ ~rpc["server"].local_completed
     /\ \/ op = "ReadOne" /\ a = NoArg /\ got = sent
        \/ op = "WriteCallData" /\ got = sent + 1
             /\ a = MsgSendArg(delivered["server"][got])

\* ClientImpl::ExecCall, the calls it makes on its ClientRPC: Start with
\* the serialized request, one ReadOne, one Close.
ExecCallScript(op, a) ==
  \/ op = "Start" /\ exec.pc = "start" /\ started["client"] = "no"
       /\ a \in {Arg("a", FALSE, FALSE, "OK", TRUE),
                 Arg("", FALSE, FALSE, "OK", TRUE)}
  \/ op = "ReadOne" /\ exec.pc = "read" /\ last.op = "Start" /\ a = NoArg
  \/ op = "Close" /\ exec.pc = "close" /\ last.op # "Close" /\ a = NoArg

\* The operations that give the writer a packet.
WriterCall(op, a) ==
  \/ op = "Start" /\ a \in StartArgs
  \/ op = "WriteCallData" /\ a \in {MsgSendArg("a"), CloseSendArg}
  \/ op = "WriteCallCancel" /\ a = NoArg

\* A caller that ends its send side before Start: one terminal
\* WriteCallData, then Start, then data writes and Close.
EarlyCloseScript(op, a) ==
  \/ op = "WriteCallData" /\ started["client"] = "no" /\ nOps = 0
       /\ a \in {CloseSendArg, Arg("", FALSE, FALSE, "Unimplemented", FALSE)}
  \/ op = "Start" /\ started["client"] = "no" /\ nOps = 1
       /\ a \in StartArgs
  \/ op = "WriteCallData" /\ started["client"] = "ok"
       /\ a \in {MsgSendArg("a"), MsgSendArg("")}
  \/ op = "Close" /\ started["client"] = "ok" /\ a = NoArg

\* The calls a user of the call object can make in each mode.  In the unit
\* modes reads come from the reading thread and everything else from the
\* other one.
Allowed(t, op, a) ==
  LET s == SideOf(t) IN
  CASE mode = "client" ->
         /\ (op = "ReadOne") = (t = Reader)
         /\ \/ op = "Start" /\ started[s] = "no" /\ a \in StartArgs
            \/ op = "WriteCallData" /\ a \in WriteArgs
            \/ op \in {"ReadOne", "WriteCallCancel", "Close", "Cancel"}
                 /\ a = NoArg
    [] mode = "newstream" ->
         /\ (op = "ReadOne") = (t = Reader)
         /\ \/ op = "Start" /\ started[s] = "no" /\ a \in StartArgs
            \/ started[s] = "ok" /\ StreamCall(op, a)
    [] mode \in {"server", "tunnel"} ->
         /\ (op = "ReadOne") = (t = Reader)
         /\ worker = "handler" /\ StreamCall(op, a)
    [] mode = "e2e" ->
         IF s = "client" THEN ClientScript(op, a)
         ELSE worker = "handler"
              /\ (StubScript(op, a) \/ EchoServerStream(op, a))
    [] mode \in {"bidi", "bidi1"} ->
         IF s = "client" THEN BidiClientScript(op, a)
         ELSE worker = "handler" /\ EchoBidiStream(op, a)
    [] mode = "cstream" ->
         IF s = "client" THEN ClientStreamScript(op, a)
         ELSE worker = "handler" /\ EchoBidiStream(op, a)
    [] mode = "exec" -> t = "t1" /\ ExecCallScript(op, a)
    [] mode \in {"wclient", "wserver"} ->
         /\ IF s = "client" THEN op = "Start" => started[s] = "no"
            ELSE worker = "handler" /\ op # "Start"
         /\ WriterCall(op, a)
    [] mode = "invoke" ->
         IF s = "client" THEN ClientScript(op, a)
         ELSE worker = "handler" /\ HandlerScript(op, a)
    [] mode = "start" ->
         op = "Start" /\ started[s] = "no" /\ a \in StartInputs
    [] mode = "early" -> t = "t1" /\ EarlyCloseScript(op, a)
    [] mode = "emit" ->
         \/ op = "Start" /\ started[s] = "no" /\ a \in StartInputs
         \/ op = "WriteCallData" /\ a \in EmitArgs
    [] mode = "pump" ->
         \/ op = "ReadOne" /\ t = Reader /\ a = NoArg
         \/ op = "Start" /\ t # Reader /\ started[s] = "no"
              /\ a \in StartArgs
    [] OTHER -> FALSE

\* Thread t calls operation op with arguments a.  Start may be called once
\* and is not counted; the end-to-end scripts bound themselves.
Call(t, op, a) ==
  /\ th[t].pc = "idle"
  /\ Allowed(t, op, a)
  /\ IF op = "Start" \/ mode \in E2EModes THEN UNCHANGED nOps
     ELSE nOps < MaxOps /\ nOps' = nOps + 1

Ret(op, res) == [op |-> op, res |-> res, noop |-> FALSE]

\* What a step of a user thread leaves alone.
UserFrame == UNCHANGED <<mode, pureVars, worker, herr, arrived, rpos, tdone, nIn>>

\* ------------------------------------------------- CommonRPC: user side
\* CommonRPC::CloseLocked, the fields it sets.
CloseLockedUpd(r) ==
  [r EXCEPT !.data_closed = TRUE,
            !.local_completed = TRUE,
            !.remote_err = IF @ = "OK" THEN "Canceled" ELSE @,
            !.canceled = TRUE]

\* The first test of the ReadOne loop: the local-cancel path.
CancelFirst(ctx_done, r) == ctx_done /\ ~r.data_closed

\* The predicate of cv_.wait in ReadOne, apart from the canceled_ test.
WaitPred(r) ==
  r.data_queue # <<>> \/ r.data_closed \/ r.remote_err # "OK"

\* What ReadOne returns from a closed call whose queue is empty.
ClosedErr(r) == IF r.remote_err # "OK" THEN r.remote_err ELSE "EOF"

\* data_queue_.front()
Front(q) == Head(q)

\* A pop that empties the queue.
PopAll(q) == <<>>

\* data_queue_.pop_front()
PopFront(q) == Tail(q)

\* CommonRPC::ReadOne: the call, or a later iteration of its loop, with
\* mtx_ held, up to the return or up to the first evaluation of the wait
\* predicate.
ReadOne(t) ==
  LET s == SideOf(t)
      r == rpc[s]
  IN
  /\ \/ th[t].pc = "rd_top" /\ UNCHANGED nOps
     \/ Call(t, "ReadOne", NoArg)
  /\ mtx[s] = NoThread
  /\ IF CancelFirst(th[t].ctx_done, r)
     THEN \* CloseLocked(); return Canceled
          /\ rpc' = [rpc EXCEPT ![s] = CloseLockedUpd(@)]
          /\ IF r.writer
             THEN /\ \E l \in WriterClose(s, wlog[s]) :
                        wlog' = [wlog EXCEPT ![s] = l]
                  /\ ub' = (ub \/ wdeleted[s])
             ELSE UNCHANGED <<wlog, ub>>
          /\ th' = Return(NotifyAll(s, th), t)
          /\ last' = Ret("ReadOne", "Canceled")
          /\ termRet' = [termRet EXCEPT ![s] = "Canceled"]
          /\ UNCHANGED <<mtx, delivered>>
     ELSE IF r.data_queue # <<>>
     THEN \* pop front; return OK
          /\ rpc' = [rpc EXCEPT ![s].data_queue = PopFront(@)]
          /\ delivered' = [delivered EXCEPT
               ![s] = Append(@, Front(r.data_queue))]
          /\ th' = Return(th, t)
          /\ last' = Ret("ReadOne", "OK")
          /\ UNCHANGED <<mtx, wlog, ub, termRet>>
     ELSE IF r.data_closed \/ r.remote_err # "OK"
     THEN /\ th' = Return(th, t)
          /\ last' = Ret("ReadOne", ClosedErr(r))
          /\ termRet' = [termRet EXCEPT ![s] = ClosedErr(r)]
          /\ UNCHANGED <<rpc, mtx, wlog, ub, delivered>>
     ELSE IF r.canceled
     THEN \* the wait predicate is true at once; the iteration ends
          /\ th' = [th EXCEPT ![t].pc = "rd_top", ![t].ctx_done = TRUE]
          /\ UNCHANGED <<rpc, mtx, wlog, ub, delivered, termRet, last>>
     ELSE \* the predicate is false: the thread is about to sleep
          /\ th' = [th EXCEPT ![t].pc = "rd_presleep"]
          /\ mtx' = [mtx EXCEPT ![s] = t]
          /\ UNCHANGED <<rpc, wlog, ub, delivered, termRet, last>>
  /\ UNCHANGED <<wdeleted, cancelOK, closes, started>>
  /\ UserFrame

\* cv_.wait releases mtx_ and blocks, atomically.
RdSleep(t) ==
  /\ th[t].pc = "rd_presleep"
  /\ th' = [th EXCEPT ![t].pc = "rd_sleep"]
  /\ mtx' = [mtx EXCEPT ![SideOf(t)] = NoThread]
  /\ UNCHANGED <<rpc, wlog, ub, wdeleted, delivered, termRet, cancelOK,
                 closes, last, started, nOps>>
  /\ UserFrame

\* A woken thread re-acquires mtx_ and evaluates the predicate again; when
\* it holds, the wait returns, canceled_ is loaded and the iteration ends.
\* The load after the wait is taken together with the predicate: a Cancel
\* between the two leaves the same state as a Cancel just before the
\* predicate, because the thread holds mtx_ from one to the other.
RdWake(t) ==
  LET s == SideOf(t)
      r == rpc[s]
  IN
  /\ th[t].pc = "rd_wake"
  /\ mtx[s] = NoThread
  /\ IF r.canceled
     THEN /\ th' = [th EXCEPT ![t].pc = "rd_top", ![t].ctx_done = TRUE]
          /\ UNCHANGED mtx
     ELSE IF WaitPred(r)
     THEN /\ th' = [th EXCEPT ![t].pc = "rd_top"]
          /\ UNCHANGED mtx
     ELSE /\ th' = [th EXCEPT ![t].pc = "rd_presleep"]
          /\ mtx' = [mtx EXCEPT ![s] = t]
  /\ UNCHANGED <<rpc, wlog, ub, wdeleted, delivered, termRet, cancelOK,
                 closes, last, started, nOps>>
  /\ UserFrame

\* std::condition_variable::wait may wake without a notification.
SpuriousWake(t) ==
  /\ th[t].pc = "rd_sleep"
  /\ th' = [th EXCEPT ![t].pc = "rd_wake"]
  /\ UNCHANGED <<rpc, mtx, wlog, ub, wdeleted, delivered, termRet, cancelOK,
                 closes, last, started, nOps>>
  /\ UserFrame

\* CommonRPC::Cancel: canceled_.store(true); cv_.notify_all().  No mutex.
Cancel(t) ==
  LET s == SideOf(t) IN
  /\ Call(t, "Cancel", NoArg)
  /\ rpc' = [rpc EXCEPT ![s].canceled = TRUE]
  /\ th' = NotifyAll(s, th)
  /\ last' = Ret("Cancel", "OK")
  /\ UNCHANGED <<mtx, wlog, ub, wdeleted, delivered, termRet, cancelOK,
                 closes, started>>
  /\ UserFrame

\* The degenerate completion WriteCallData tolerates on a completed call.
IsNoop(a) == a.complete /\ a.data = "" /\ ~a.diz

\* A load of local_completed_ that never sees the latch.
NeverCompleted(r) == FALSE

\* WriteCallData: what the load of local_completed_ decides.
AlreadyCompleted(r) == r.local_completed

\* CommonRPC::WriteCallData, the call and the load of local_completed_.
WriteCallData(t, a) ==
  LET s == SideOf(t) IN
  /\ Call(t, "WriteCallData", a)
  /\ IF AlreadyCompleted(rpc[s])
     THEN /\ last' = [Ret("WriteCallData",
                             IF IsNoop(a) THEN "OK" ELSE "Completed")
                         EXCEPT !.noop = IsNoop(a)]
          /\ UNCHANGED th
     ELSE /\ th' = [th EXCEPT
               ![t].pc = IF a.complete \/ a.err # "OK"
                         THEN "wd_store" ELSE "wd_lock",
               ![t].arg = a]
          /\ UNCHANGED last
  /\ UNCHANGED <<rpc, mtx, wlog, ub, wdeleted, delivered, termRet, cancelOK,
                 closes, started>>
  /\ UserFrame

\* CommonRPC::WriteCallData, local_completed_.store(true).
WdStore(t) ==
  LET s == SideOf(t) IN
  /\ th[t].pc = "wd_store"
  /\ rpc' = [rpc EXCEPT ![s].local_completed = TRUE]
  /\ th' = [th EXCEPT ![t].pc = "wd_lock"]
  /\ UNCHANGED <<mtx, wlog, ub, wdeleted, delivered, termRet, cancelOK,
                 closes, last, started, nOps>>
  /\ UserFrame

\* CommonRPC::WriteCallData, the part under mtx_.
WdLock(t) ==
  LET s == SideOf(t)
      a == th[t].arg
  IN
  /\ th[t].pc = "wd_lock"
  /\ mtx[s] = NoThread
  /\ IF ~rpc[s].writer
     THEN /\ last' = Ret("WriteCallData", "NilWriter")
          /\ UNCHANGED <<wlog, ub>>
     ELSE /\ \E l \in WriterWrite(s,
                 NewCallDataPacket(a.data, a.data = "" /\ a.diz, a.complete,
                                   a.err), wlog[s]) :
               wlog' = [wlog EXCEPT ![s] = l]
          /\ ub' = (ub \/ wdeleted[s])
          /\ last' = Ret("WriteCallData", "OK")
  /\ th' = Return(th, t)
  /\ UNCHANGED <<rpc, mtx, wdeleted, delivered, termRet, cancelOK, closes,
                 started, nOps>>
  /\ UserFrame

\* A cancel that does not look at local_completed_.
CallCancelErrNoLatch(r) == IF ~r.writer THEN "NilWriter" ELSE "OK"

\* CommonRPC::WriteCallCancelLocked: the Error it returns.
CallCancelErr(r) ==
  IF r.local_completed THEN "Completed"
  ELSE IF ~r.writer THEN "NilWriter"
  ELSE "OK"

\* CommonRPC::WriteCallCancelLocked: its effect on the call and the writer.
WriteCallCancelLocked(s) ==
  /\ rpc' = [rpc EXCEPT ![s].local_completed = TRUE]
  /\ IF CallCancelErr(rpc[s]) = "OK"
     THEN /\ \E l \in WriterWrite(s, NewCallCancelPacket, wlog[s]) :
               wlog' = [wlog EXCEPT ![s] = l]
          /\ ub' = (ub \/ wdeleted[s])
          /\ cancelOK' = [cancelOK EXCEPT ![s] = TRUE]
     ELSE UNCHANGED <<wlog, ub, cancelOK>>

\* CommonRPC::WriteCallCancel
WriteCallCancel(t) ==
  LET s == SideOf(t) IN
  /\ Call(t, "WriteCallCancel", NoArg)
  /\ mtx[s] = NoThread
  /\ WriteCallCancelLocked(s)
  /\ last' = Ret("WriteCallCancel", CallCancelErr(rpc[s]))
  /\ UNCHANGED <<th, mtx, wdeleted, delivered, termRet, closes, started>>
  /\ UserFrame

\* ClientRPC::Close: under mtx_, WriteCallCancelLocked then CloseLocked,
\* both only when the writer is set.
Close(t) ==
  LET s == SideOf(t)
      r == rpc[s]
      afterCancel ==
        IF CallCancelErr(r) = "OK"
        THEN WriterWrite(s, NewCallCancelPacket, wlog[s]) ELSE {wlog[s]}
  IN
  /\ Call(t, "Close", NoArg)
  /\ mtx[s] = NoThread
  /\ IF r.writer
     THEN /\ rpc' = [rpc EXCEPT ![s] = CloseLockedUpd(@)]
          /\ \E l1 \in afterCancel : \E l2 \in WriterClose(s, l1) :
               wlog' = [wlog EXCEPT ![s] = l2]
          /\ ub' = (ub \/ wdeleted[s])
          /\ cancelOK' = [cancelOK EXCEPT
               ![s] = @ \/ CallCancelErr(r) = "OK"]
          /\ th' = NotifyAll(s, th)
     ELSE UNCHANGED <<rpc, th, wlog, ub, cancelOK>>
  /\ last' = Ret("Close", "OK")
  /\ closes' = [closes EXCEPT ![s] = IF r.writer THEN @ + 1 ELSE @]
  /\ UNCHANGED <<mtx, wdeleted, delivered, termRet, started>>
  /\ UserFrame

\* MsgStream::Close, first half: err = rw_->WriteCallCancel().
MsgClose(t) ==
  LET s == SideOf(t) IN
  /\ Call(t, "MsgClose", NoArg)
  /\ mtx[s] = NoThread
  /\ WriteCallCancelLocked(s)
  /\ th' = [th EXCEPT ![t].pc = "mc_cb", ![t].arg.err = CallCancelErr(rpc[s])]
  /\ UNCHANGED <<mtx, wdeleted, delivered, termRet, closes, last, started>>
  /\ UserFrame

\* MsgStream::Close, second half: close_cb_(), return err.
\* ServerRPC::InvokeRPC passes Cancel(); ClientImpl::NewStream passes
\* Cancel(), writer_ptr->Close(), delete writer_ptr.
McCb(t) ==
  LET s == SideOf(t) IN
  /\ th[t].pc = "mc_cb"
  /\ rpc' = [rpc EXCEPT ![s].canceled = TRUE]
  /\ th' = Return(NotifyAll(s, th), t)
  /\ last' = Ret("MsgClose", th[t].arg.err)
  /\ IF s = "client"
     THEN /\ \E l \in WriterClose(s, wlog[s]) : wlog' = [wlog EXCEPT ![s] = l]
          /\ ub' = (ub \/ wdeleted[s])
          /\ wdeleted' = [wdeleted EXCEPT ![s] = TRUE]
     ELSE UNCHANGED <<wlog, ub, wdeleted>>
  /\ closes' = [closes EXCEPT ![s] = @ + 1]
  /\ UNCHANGED <<mtx, delivered, termRet, cancelOK, started, nOps>>
  /\ UserFrame

\* A test that never finds the call canceled.
NeverCanceled(r) == FALSE

\* CommonRPC::IsCanceled: canceled_.load()
IsCanceled(r) == r.canceled

\* ClientRPC::Start, up to the IsCanceled() test.  A NewStream whose Start
\* fails returns, and its unique_ptr destroys the writer.
Start(t, a) ==
  LET s == SideOf(t) IN
  /\ Call(t, "Start", a)
  /\ IF IsCanceled(rpc[s])
     THEN /\ th' = NotifyAll(s, th)
          /\ last' = Ret("Start", "Canceled")
          /\ \E l \in WriterClose(s, wlog[s]) : wlog' = [wlog EXCEPT ![s] = l]
          /\ started' = [started EXCEPT ![s] = "failed"]
          /\ wdeleted' = [wdeleted EXCEPT ![s] = (mode = "newstream")]
     ELSE /\ th' = [th EXCEPT ![t].pc = "st_lock", ![t].arg = a]
          /\ started' = [started EXCEPT ![s] = "calling"]
          /\ UNCHANGED <<wlog, wdeleted, last>>
  /\ UNCHANGED <<rpc, mtx, ub, delivered, termRet, cancelOK, closes>>
  /\ UserFrame

\* ClientRPC::Start, the block under mtx_ and the notify_all after it.
StLock(t) ==
  LET s == SideOf(t)
      a == th[t].arg
      first_msg_empty == a.wfm /\ a.data = ""
  IN
  /\ th[t].pc = "st_lock"
  /\ mtx[s] = NoThread
  /\ rpc' = [rpc EXCEPT ![s].writer = TRUE]
  /\ \E l \in WriterWrite(s,
         NewCallStartPacket(rpc[s].service, rpc[s].method, a.data,
                            first_msg_empty), wlog[s]) :
       wlog' = [wlog EXCEPT ![s] = l]
  /\ th' = Return(NotifyAll(s, th), t)
  /\ last' = Ret("Start", "OK")
  /\ started' = [started EXCEPT ![s] = "ok"]
  /\ UNCHANGED <<mtx, ub, wdeleted, delivered, termRet, cancelOK, closes,
                 nOps>>
  /\ UserFrame

\* ------------------------------------------------- ServerRPC::InvokeRPC
WorkerFrame ==
  UNCHANGED <<mode, pureVars, mtx, wdeleted, arrived, delivered, termRet, cancelOK,
              closes, last, rpos, tdone, started, nIn, nOps>>

\* InvokeMethod returned (found, err); not found with OK is Unimplemented.
InvokeErr(found, err) ==
  IF err = "OK" /\ ~found THEN "Unimplemented" ELSE err

\* The user handler returns to InvokeRPC.
HandlerReturn(found, err) ==
  /\ mode \in ServerModes
  /\ worker = "handler"
  /\ \A t \in Threads : th[t].pc = "idle"
  /\ worker' = "write"
  /\ herr' = InvokeErr(found, err)
  /\ UNCHANGED <<rpc, th, wlog, ub>>
  /\ WorkerFrame

\* writer_->WritePacket(NewCallDataPacket("", false, true, err))
WorkerWrite ==
  /\ worker = "write"
  /\ \E l \in WriterWrite("server",
         NewCallDataPacket("", FALSE, TRUE, herr), wlog["server"]) :
       wlog' = [wlog EXCEPT !["server"] = l]
  /\ ub' = (ub \/ wdeleted["server"])
  /\ worker' = "close"
  /\ UNCHANGED <<rpc, th, herr>>
  /\ WorkerFrame

\* writer_->Close()
WorkerClose ==
  /\ worker = "close"
  /\ \E l \in WriterClose("server", wlog["server"]) :
       wlog' = [wlog EXCEPT !["server"] = l]
  /\ ub' = (ub \/ wdeleted["server"])
  /\ worker' = "cancel"
  /\ UNCHANGED <<rpc, th, herr>>
  /\ WorkerFrame

\* Cancel()
WorkerCancel ==
  /\ worker = "cancel"
  /\ rpc' = [rpc EXCEPT !["server"].canceled = TRUE]
  /\ th' = NotifyAll("server", th)
  /\ worker' = "done"
  /\ UNCHANGED <<wlog, ub, herr>>
  /\ WorkerFrame

\* ---------------------------------------------------------- specification
ThreadStep(t) ==
  \/ ReadOne(t) \/ RdSleep(t) \/ RdWake(t) \/ SpuriousWake(t)
  \/ Cancel(t)
  \/ \E a \in WriteArgs : WriteCallData(t, a)
  \/ WdStore(t) \/ WdLock(t)
  \/ WriteCallCancel(t) \/ Close(t)
  \/ MsgClose(t) \/ McCb(t)
  \/ \E a \in StartArgs : Start(t, a)
  \/ StLock(t)

Next ==
  \/ \E s \in Sides, pkt \in InPackets : TransportPacket(s, pkt)
  \/ \E s \in Sides : TransportBadData(s)
  \/ \E s \in Sides, e \in CloseErrs : TransportClose(s, e)
  \/ \E t \in Threads : ThreadStep(t)
  \/ \E f \in BOOLEAN, e \in ArgErrs : HandlerReturn(f, e)
  \/ WorkerWrite
  \/ WorkerClose
  \/ WorkerCancel

Spec == Init /\ [][Next]_vars

\* Fair scheduling: a thread that is inside an operation eventually takes
\* its next step when that step stays possible, and so does the server
\* worker.  Nothing obliges a spurious wake-up, an inbound event or a new
\* call to happen.
Progress(t) ==
  /\ th[t].pc # "idle"
  /\ \/ ReadOne(t) \/ RdSleep(t) \/ RdWake(t)
     \/ WdStore(t) \/ WdLock(t)
     \/ McCb(t) \/ StLock(t)

WorkerStep == WorkerWrite \/ WorkerClose \/ WorkerCancel

FairSpec ==
  /\ Spec
  /\ \A t \in Threads : WF_vars(Progress(t))
  /\ WF_vars(WorkerStep)

\* ------------------------------------------- end to end (echo_e2e_test)
\* proto3 wire form of a Packet: the oneof case, and the fields of the body
\* that differ from their default; a oneof scalar is always present.
StrField(name, v) == IF v = "" THEN <<>> ELSE << <<name, v>> >>
BoolField(name, b) == IF b THEN << <<name, "1">> >> ELSE <<>>

\* A wire form that leaves data_is_zero out.
SerializeNoZeroFlag(pkt) ==
  [body |-> pkt.body,
   fields |->
     IF pkt.body = "CallCancel"
     THEN << <<"call_cancel", IF pkt.cancel THEN "1" ELSE "0">> >>
     ELSE StrField("rpc_service", pkt.svc) \o StrField("rpc_method", pkt.mth)
          \o StrField("data", pkt.data)
          \o BoolField("complete", pkt.complete)
          \o StrField("error", pkt.error)]

\* InMemoryPacketWriter::WritePacket: pkt.SerializeToString(&data)
SerializeToString(pkt) ==
  [body |-> pkt.body,
   fields |->
     IF pkt.body = "CallCancel"
     THEN << <<"call_cancel", IF pkt.cancel THEN "1" ELSE "0">> >>
     ELSE StrField("rpc_service", pkt.svc) \o StrField("rpc_method", pkt.mth)
          \o StrField("data", pkt.data) \o BoolField("data_is_zero", pkt.diz)
          \o BoolField("complete", pkt.complete)
          \o StrField("error", pkt.error)]

\* The value of a field on the wire, or its default.
FieldOr(w, name, default) ==
  IF \E i \in DOMAIN w.fields : w.fields[i][1] = name
  THEN w.fields[CHOOSE i \in DOMAIN w.fields : w.fields[i][1] = name][2]
  ELSE default

\* HandlePacketData: msg.ParseFromString(data)
ParseFromString(w) ==
  Pkt(w.body, FieldOr(w, "rpc_service", ""), FieldOr(w, "rpc_method", ""),
      FieldOr(w, "data", ""), FieldOr(w, "data_is_zero", "") = "1",
      FieldOr(w, "complete", "") = "1", FieldOr(w, "error", ""),
      FieldOr(w, "call_cancel", "") = "1")

\* Events of a writer log before its first Close.
RECURSIVE BeforeClose(_)
BeforeClose(log) ==
  IF log = <<>> \/ Head(log) = CloseEvent THEN <<>>
  ELSE <<Head(log)>> \o BeforeClose(Tail(log))

\* Endpoint::packets of the endpoint side s reads, since the start:
\* InMemoryTransport::Send queues what the peer's writer is given until the
\* endpoint is closed.
Endpoint(s) ==
  LET sent == Packets(BeforeClose(wlog[Peer(s)]))
  IN [i \in DOMAIN sent |-> SerializeToString(sent[i])]

\* The receive loops of RunServer and of client_recv_thread: Recv one
\* packet, HandlePacketData, leave the loop on an error.
LoopExits(s, err) ==
  IF s = "server" THEN err \notin {"OK", "Completed"} ELSE err # "OK"

Recv(s) ==
  /\ mode \in E2EModes
  /\ ~tdone[s]
  /\ rpos[s] < Len(Endpoint(s))
  /\ LET pkt == ParseFromString(Endpoint(s)[rpos[s] + 1])
     IN /\ HandlePacket(s, pkt)
        /\ tdone' = [tdone EXCEPT ![s] = LoopExits(s, HandlePacketErr(s, pkt))]
  /\ rpos' = [rpos EXCEPT ![s] = @ + 1]
  /\ UNCHANGED <<mode, pureVars, mtx, herr, wdeleted, delivered, termRet, cancelOK,
                 closes, last, started, nIn, nOps>>

\* RunServer: Recv returns false (nothing came in time, or the endpoint is
\* closed and drained) and the loop ends.
ServerRecvFails ==
  /\ mode \in E2EModes
  /\ ~tdone["server"]
  /\ rpos["server"] = Len(Endpoint("server"))
  /\ tdone' = [tdone EXCEPT !["server"] = TRUE]
  /\ UNCHANGED <<mode, pureVars, rpc, mtx, th, worker, herr, wlog, wdeleted, ub,
                 arrived, delivered, termRet, cancelOK, closes, last, rpos,
                 started, nIn, nOps>>

\* The method stub returns to InvokeRPC: with the error of the request
\* read when that failed, with OK after the implementation has sent its
\* messages.
StubReturn ==
  /\ mode = "e2e"
  /\ worker = "handler"
  /\ th["t2"].pc = "idle"
  /\ \/ termRet["server"] # "none"
     \/ Len(SentPayloads(wlog["server"])) = NumMsgs
  /\ worker' = "write"
  /\ herr' = InvokeErr(TRUE, IF termRet["server"] # "none"
                             THEN termRet["server"] ELSE "OK")
  /\ UNCHANGED <<rpc, th, wlog, ub>>
  /\ WorkerFrame

InitE2E ==
  /\ mode = "e2e"
  /\ InitCommon
  /\ InitPure

E2EThreadStep(t) ==
  \/ ReadOne(t) \/ RdSleep(t) \/ RdWake(t) \/ SpuriousWake(t)
  \/ \E a \in WriteArgs : WriteCallData(t, a)
  \/ WdLock(t)
  \/ \E a \in StartArgs : Start(t, a)
  \/ StLock(t)

NextE2E ==
  \/ \E s \in Sides : Recv(s)
  \/ ServerRecvFails
  \/ \E t \in Threads : E2EThreadStep(t)
  \/ StubReturn
  \/ WorkerWrite
  \/ WorkerClose
  \/ WorkerCancel

SpecE2E == InitE2E /\ [][NextE2E]_vars

\* ------------------------------------ end to end, the echoing handler
\* EchoServerImpl::EchoBidiStream returns: OK when Recv returned EOF, the
\* error of the Recv or of the Send otherwise.
EchoBidiReturn ==
  /\ mode \in {"bidi", "bidi1", "cstream"}
  /\ worker = "handler"
  /\ th["t2"].pc = "idle"
  /\ \/ termRet["server"] # "none"
     \/ /\ rpc["server"].local_completed
        /\ Len(delivered["server"]) > Len(SentPayloads(wlog["server"]))
  /\ worker' = "write"
  /\ herr' = InvokeErr(TRUE,
               IF termRet["server"] = "EOF" THEN "OK"
               ELSE IF termRet["server"] # "none" THEN termRet["server"]
               ELSE "Completed")
  /\ UNCHANGED <<rpc, th, wlog, ub>>
  /\ WorkerFrame

\* What the echo clients and the echoing handler pass to WriteCallData.
EchoArgs ==
  {Arg(EchoPayload(k), FALSE, FALSE, "OK", FALSE) : k \in 1..2}
    \cup {CloseSendArg}

InitEcho ==
  /\ mode \in {"bidi", "bidi1", "cstream"}
  /\ InitCommon
  /\ InitPure

\* A call or a step inside a call, spurious wake-ups apart.
EchoProgress(t) ==
  \/ ReadOne(t) \/ RdSleep(t) \/ RdWake(t)
  \/ \E a \in EchoArgs : WriteCallData(t, a)
  \/ WdStore(t) \/ WdLock(t)
  \/ \E a \in {Arg(EchoPayload(1), FALSE, FALSE, "OK", TRUE),
               Arg("", FALSE, FALSE, "OK", FALSE)} : Start(t, a)
  \/ StLock(t)

NextEcho ==
  \/ \E s \in Sides : Recv(s)
  \/ ServerRecvFails
  \/ \E t \in Threads : EchoProgress(t)
  \/ \E t \in Threads : SpuriousWake(t)
  \/ EchoBidiReturn
  \/ WorkerWrite
  \/ WorkerClose
  \/ WorkerCancel

SpecEcho == InitEcho /\ [][NextEcho]_vars

\* Fair scheduling of the echo runs: the threads, the receive loops and the
\* worker keep going, and a thread that waits in mtx_.lock() gets the mutex
\* when it is released again and again (strong fairness: a reader that
\* wakes spuriously takes and releases mtx_ in between).  Nothing obliges
\* a spurious wake-up or the give-up of RunServer's Recv.
FairEcho ==
  /\ SpecEcho
  /\ \A t \in Threads : SF_vars(EchoProgress(t))
  /\ \A s \in Sides : SF_vars(Recv(s))
  /\ WF_vars(EchoBidiReturn)
  /\ WF_vars(WorkerStep)

\* ------------------------------------------------ ValidatePacket by itself
\* The packets ValidatePacket is checked on: every CallStart and CallData
\* over a few field values, both CallCancel values and the packet without
\* body.
ValidateInputs ==
  { NewCallStartPacket(svc, mth, data, diz) :
      svc \in {"", "svc", "echo.Echoer"}, mth \in {"", "mth"},
      data \in {"", "a", "b"}, diz \in BOOLEAN }
  \cup { Pkt("CallData", "", "", data, diz, complete, error, FALSE) :
      data \in {"", "a", "b"}, diz \in BOOLEAN, complete \in BOOLEAN,
      error \in {"", "unimplemented"} }
  \cup { Pkt("CallCancel", "", "", "", FALSE, FALSE, "", c) : c \in BOOLEAN }
  \cup { NoBodyPacket }

InitValidate ==
  /\ mode = "validate"
  /\ InitCommon
  /\ vpkt \in ValidateInputs
  /\ vres = "none"
  /\ InitMuxState
  /\ fallback = <<>>
  /\ tun = NoTunnel
  /\ exec = NoExec
  /\ pump = NoPump

\* HandlePacket: Error err = ValidatePacket(msg)
Validate ==
  /\ mode = "validate"
  /\ vres = "none"
  /\ vres' = ValidatePacket(vpkt)
  /\ UNCHANGED <<mode, tun, exec, pump, rpc, mtx, th, worker, herr, wlog, wdeleted, ub,
                 arrived, delivered, termRet, cancelOK, closes, last, rpos,
                 tdone, started, nIn, nOps, vpkt, muxVars>>

NextValidate == Validate

SpecValidate == InitValidate /\ [][NextValidate]_vars

\* ------------------------------------------------------------------ Mux
\* The handlers offered to Register: two for one service that share a
\* method, one for another service with the same method name and an empty
\* method id, one without service id, one whose only method id is empty.
Handlers == {"h1", "h2", "h3", "h4", "h5"}

\* Handler::GetServiceID
GetServiceID(h) ==
  CASE h \in {"h1", "h2"} -> "svc1"
    [] h = "h3" -> "svc2"
    [] h = "h4" -> ""
    [] OTHER -> "svc3"

\* Handler::GetMethodIDs
GetMethodIDs(h) ==
  CASE h = "h1" -> {"m1", "m2"}
    [] h = "h2" -> {"m2"}
    [] h = "h3" -> {"m1", ""}
    [] h = "h4" -> {"m1"}
    [] OTHER -> {""}

ServiceIDs == {"", "svc1", "svc2", "svc3"}
MethodIDs == {"", "m1", "m2"}

\* What an Invoker can answer: (found, err).
InvokeResults == {<<TRUE, "OK">>, <<FALSE, "OK">>, <<FALSE, "Unimplemented">>}

\* The fallback invokers a Mux can be given: a null pointer, or an invoker
\* with the answer it gives.
FallbackKinds ==
  {[null |-> TRUE, ret |-> <<FALSE, "OK">>]}
    \cup {[null |-> FALSE, ret |-> r] : r \in InvokeResults}

\* services_[service_id] after Register stored over the existing entry.
RegisterFirstWins(old, h) ==
  [m \in DOMAIN old \cup (GetMethodIDs(h) \ {""}) |->
     IF m \in DOMAIN old THEN old[m] ELSE h]

\* services_[service_id] after the loop of Register: every non-empty
\* method id of the handler maps to the handler.
RegisterMethods(old, h) ==
  [m \in DOMAIN old \cup (GetMethodIDs(h) \ {""}) |->
     IF m \in GetMethodIDs(h) THEN h ELSE old[m]]

MuxFrame ==
  UNCHANGED <<mode, tun, exec, pump, rpc, mtx, th, worker, herr, wlog, wdeleted, ub, arrived,
              delivered, termRet, cancelOK, closes, last, rpos, tdone,
              started, nIn, nOps, vpkt, vres, fallback, reg>>

\* Mux::Register
Register(h) ==
  /\ mode = "mux"
  /\ IF GetServiceID(h) = ""
     THEN /\ mres' = MuxRet("Register", "", "", h, <<>>, FALSE, "EmptyServiceID")
          /\ UNCHANGED <<services, regLog>>
     ELSE /\ Len(regLog) < MaxReg
          /\ LET s == GetServiceID(h)
                 old == IF s \in DOMAIN services THEN services[s] ELSE <<>>
             IN services' =
                  [x \in DOMAIN services \cup {s} |->
                     IF x = s THEN RegisterMethods(old, h) ELSE services[x]]
          /\ regLog' = Append(regLog, h)
          /\ mres' = MuxRet("Register", GetServiceID(h), "", h, <<>>, FALSE, "OK")
  /\ MuxFrame

\* Mux::HasService
HasService(service_id) ==
  /\ service_id # ""
  /\ service_id \in DOMAIN services
  /\ DOMAIN services[service_id] # {}

\* Mux::HasServiceMethod
HasServiceMethod(service_id, method_id) ==
  /\ service_id # "" /\ method_id # ""
  /\ service_id \in DOMAIN services
  /\ \E mid \in DOMAIN services[service_id] :
       method_id \in GetMethodIDs(services[service_id][mid])

\* A shared lock that never waits.
SharedLockIgnored == TRUE

\* Mux::InvokeMethod, the lookup under the shared lock: the handlers it can
\* end with ("none" for nullptr).  With an empty service id the services
\* are visited in the order of the unordered_map, which is unspecified.
Lookup(service_id, method_id) ==
  IF service_id = ""
  THEN LET hit == {x \in DOMAIN services : method_id \in DOMAIN services[x]}
       IN IF hit = {} THEN {"none"}
          ELSE {services[x][method_id] : x \in hit}
  ELSE IF service_id \in DOMAIN services
          /\ method_id \in DOMAIN services[service_id]
       THEN {services[service_id][method_id]}
       ELSE {"none"}

\* A fallback loop that goes on after an error.
RECURSIVE TryFallbacksPastErrors(_, _, _)
TryFallbacksPastErrors(fb, i, called) ==
  IF i > Len(fb) THEN [called |-> called, ret |-> <<FALSE, "OK">>]
  ELSE IF fb[i].null THEN TryFallbacksPastErrors(fb, i + 1, called)
  ELSE IF fb[i].ret[1]
       THEN [called |-> Append(called, i), ret |-> fb[i].ret]
       ELSE TryFallbacksPastErrors(fb, i + 1, Append(called, i))

\* Mux::InvokeMethod, the loop over fallback_ from index i on: the indexes
\* of the invokers called and the pair returned.
RECURSIVE TryFallbacks(_, _, _)
TryFallbacks(fb, i, called) ==
  IF i > Len(fb) THEN [called |-> called, ret |-> <<FALSE, "OK">>]
  ELSE IF fb[i].null THEN TryFallbacks(fb, i + 1, called)
  ELSE IF fb[i].ret[2] # "OK" \/ fb[i].ret[1]
       THEN [called |-> Append(called, i), ret |-> fb[i].ret]
       ELSE TryFallbacks(fb, i + 1, Append(called, i))

\* std::shared_lock lock(mtx_) can be taken: no Register holds mtx_.
SharedLockFree == reg.h = "none"

\* Mux::InvokeMethod
InvokeMethod(service_id, method_id) ==
  /\ mode \in {"mux", "muxconc"}
  /\ SharedLockFree
  /\ \E h \in Lookup(service_id, method_id) :
       IF h # "none"
       THEN \E r \in InvokeResults :
              mres' = MuxRet("InvokeMethod", service_id, method_id, h, <<>>,
                             r[1], r[2])
       ELSE LET run == TryFallbacks(fallback, 1, <<>>)
            IN mres' = MuxRet("InvokeMethod", service_id, method_id, "none",
                              run.called, run.ret[1], run.ret[2])
  /\ UNCHANGED <<services, regLog>>
  /\ MuxFrame

\* A caller asks HasService.
CallHasService(service_id) ==
  /\ mode \in {"mux", "muxconc"}
  /\ SharedLockFree
  /\ mres' = MuxRet("HasService", service_id, "", "none", <<>>,
                    HasService(service_id), "OK")
  /\ UNCHANGED <<services, regLog>>
  /\ MuxFrame

\* A caller asks HasServiceMethod.
CallHasServiceMethod(service_id, method_id) ==
  /\ mode \in {"mux", "muxconc"}
  /\ SharedLockFree
  /\ mres' = MuxRet("HasServiceMethod", service_id, method_id, "none", <<>>,
                    HasServiceMethod(service_id, method_id), "OK")
  /\ UNCHANGED <<services, regLog>>
  /\ MuxFrame

\* Sequences over S of length at most n.
SeqUpTo(S, n) == UNION {[1..k -> S] : k \in 0..n}

InitMux ==
  /\ mode = "mux"
  /\ InitCommon
  /\ vpkt = NoBodyPacket
  /\ vres = "none"
  /\ InitMuxState
  /\ fallback \in SeqUpTo(FallbackKinds, MaxFallback)
  /\ tun = NoTunnel
  /\ exec = NoExec
  /\ pump = NoPump

NextMux ==
  \/ \E h \in Handlers : Register(h)
  \/ \E s \in ServiceIDs, m \in MethodIDs : InvokeMethod(s, m)
  \/ \E s \in ServiceIDs : CallHasService(s)
  \/ \E s \in ServiceIDs, m \in MethodIDs : CallHasServiceMethod(s, m)

SpecMux == InitMux /\ [][NextMux]_vars

\* ------------------------------------- Mux: Register beside the lookups
\* What the steps of a Register leave alone.
RegFrame ==
  UNCHANGED <<mode, tun, exec, pump, rpc, mtx, th, worker, herr, wlog, wdeleted, ub, arrived,
              delivered, termRet, cancelOK, closes, last, rpos, tdone,
              started, nIn, nOps, vpkt, vres, fallback>>

\* Mux::Register up to services_[service_id]: the service id is tested,
\* mtx_ is taken exclusively and the entry of the service is created.
RegLock(h) ==
  /\ mode = "muxconc"
  /\ reg.h = "none"
  /\ IF GetServiceID(h) = ""
     THEN /\ mres' = MuxRet("Register", "", "", h, <<>>, FALSE, "EmptyServiceID")
          /\ UNCHANGED <<services, regLog, reg>>
     ELSE /\ Len(regLog) < MaxReg
          /\ LET s == GetServiceID(h) IN
             /\ services' = [x \in DOMAIN services \cup {s} |->
                               IF x \in DOMAIN services THEN services[x]
                               ELSE <<>>]
             /\ reg' = [h |-> h, todo |-> GetMethodIDs(h), before |-> services]
          /\ UNCHANGED <<regLog, mres>>
  /\ RegFrame

\* Mux::Register, one iteration of the loop over method_ids.
RegInsert ==
  /\ mode = "muxconc"
  /\ reg.h # "none"
  /\ \E m \in reg.todo :
       /\ reg' = [reg EXCEPT !.todo = @ \ {m}]
       /\ LET s == GetServiceID(reg.h) IN
          services' =
            IF m = "" THEN services
            ELSE [services EXCEPT ![s] =
                    [k \in DOMAIN services[s] \cup {m} |->
                       IF k = m THEN reg.h ELSE services[s][k]]]
  /\ UNCHANGED <<regLog, mres>>
  /\ RegFrame

\* Mux::Register returns OK and releases mtx_.
RegUnlock ==
  /\ mode = "muxconc"
  /\ reg.h # "none" /\ reg.todo = {}
  /\ reg' = NoReg
  /\ regLog' = Append(regLog, reg.h)
  /\ mres' = MuxRet("Register", GetServiceID(reg.h), "", reg.h, <<>>, FALSE, "OK")
  /\ UNCHANGED services
  /\ RegFrame

InitMuxConc ==
  /\ mode = "muxconc"
  /\ InitCommon
  /\ vpkt = NoBodyPacket
  /\ vres = "none"
  /\ InitMuxState
  /\ fallback = <<>>
  /\ tun = NoTunnel
  /\ exec = NoExec
  /\ pump = NoPump

NextMuxConc ==
  \/ \E h \in Handlers : RegLock(h)
  \/ RegInsert
  \/ RegUnlock
  \/ \E s \in ServiceIDs, m \in MethodIDs : InvokeMethod(s, m)
  \/ \E s \in ServiceIDs : CallHasService(s)
  \/ \E s \in ServiceIDs, m \in MethodIDs : CallHasServiceMethod(s, m)

SpecMuxConc == InitMuxConc /\ [][NextMuxConc]_vars

\* ------------------------------------------- rpcstream: HandleRpcStream
\* What the RpcStreamGetter answers: an invoker, no invoker with OK, or an
\* error.
GetterResults == {"ok", "null", "Unimplemented", "EmptyServiceID"}

\* An RpcAck whose error string is always empty.
AckErrorEmpty(g) == ""

\* The error string of the RpcAck HandleRpcStream sends.
AckError(g) ==
  CASE g = "ok" -> ""
    [] g = "null" -> "component not found"
    [] OTHER -> ErrorString(g)

\* What HandleRpcStream returns when the getter gave no invoker.
LookupErr(g) == IF g = "null" THEN "Unimplemented" ELSE g

\* RpcStreamWriter::WritePacket: the Packet is serialized and sent as the
\* data of an RpcStreamPacket.
RpcStreamWritePacket(pkt) == [body |-> "data", data |-> SerializeToString(pkt)]

\* What the server sent on the outer stream: the RpcAck, then one
\* RpcStreamPacket per packet and one CloseSend per Close its
\* RpcStreamWriter was given.
OuterSent ==
  IF tun.ack = "none" THEN <<>>
  ELSE <<[body |-> "ack", error |-> tun.ack]>>
       \o [i \in DOMAIN wlog["server"] |->
             IF IsPacket(wlog["server"][i])
             THEN RpcStreamWritePacket(wlog["server"][i])
             ELSE [body |-> "close_send"]]

\* The inner packets a reader of the outer stream decodes from the data
\* envelopes.
TunnelEmitted ==
  LET env == SelectSeq(OuterSent, LAMBDA e : e.body = "data")
  IN [i \in DOMAIN env |-> ParseFromString(env[i].data)]

\* HandleRpcStream leaves its loop: release_fn is called if there is one,
\* and the locals are destroyed before err reaches the caller.
Returning(t, err) ==
  [t EXCEPT !.pc = "joining",
            !.released = IF t.relfn THEN @ + 1 ELSE @,
            !.ret = err]

TunnelFrame ==
  UNCHANGED <<mode, vpkt, vres, muxVars, exec, pump, mtx, herr, wdeleted,
              delivered, termRet, cancelOK, closes, rpos, tdone, started, nOps>>

\* OpenRpcStream: the RpcStreamInit is sent.
OpenSend ==
  /\ mode = "tunnel"
  /\ tun.open = "idle"
  /\ tun' = [tun EXCEPT !.open = "wait"]
  /\ UNCHANGED <<rpc, th, arrived, worker, wlog, ub, last, nIn>>
  /\ TunnelFrame

\* HandleRpcStream up to its loop: the init packet is read, the getter is
\* asked and the RpcAck is sent; without an invoker it returns.
TunnelInit ==
  /\ mode = "tunnel"
  /\ tun.pc = "init"
  /\ tun.open = "wait"
  /\ tun' = IF tun.getter = "ok"
            THEN [tun EXCEPT !.pc = "serving", !.ack = AckError(tun.getter)]
            ELSE [tun EXCEPT !.pc = "done", !.ack = AckError(tun.getter),
                             !.ret = LookupErr(tun.getter)]
  /\ UNCHANGED <<rpc, th, arrived, worker, wlog, ub, last, nIn>>
  /\ TunnelFrame

\* OpenRpcStream with wait_ack: the RpcAck is read.
OpenRecv ==
  /\ mode = "tunnel"
  /\ tun.open = "wait"
  /\ tun.ack # "none"
  /\ tun' = [tun EXCEPT !.open = IF tun.ack = "" THEN "OK"
                                 ELSE "Unimplemented"]
  /\ UNCHANGED <<rpc, th, arrived, worker, wlog, ub, last, nIn>>
  /\ TunnelFrame

\* The loop of HandleRpcStream reads a data envelope that holds the inner
\* packet pkt as the client's RpcStreamWriter serialized it, and gives it
\* to HandlePacketData; an error other than Completed ends the loop.
TunnelData(pkt) ==
  /\ mode = "tunnel"
  /\ tun.pc = "serving"
  /\ tun.open = "OK"
  /\ nIn < MaxIn
  /\ nIn' = nIn + 1
  /\ LET inner == ParseFromString(SerializeToString(pkt))
         err == HandlePacketErr("server", inner)
     IN /\ HandlePacket("server", inner)
        /\ last' = [op |-> "HandlePacket", res |-> err, noop |-> FALSE]
        /\ tun' = IF err \in {"OK", "Completed"} THEN tun
                  ELSE Returning(tun, err)
  /\ TunnelFrame

\* A data envelope whose bytes are no Packet.
TunnelBadData ==
  /\ mode = "tunnel"
  /\ tun.pc = "serving"
  /\ tun.open = "OK"
  /\ nIn < MaxIn
  /\ nIn' = nIn + 1
  /\ last' = [op |-> "HandlePacket", res |-> "InvalidMessage", noop |-> FALSE]
  /\ tun' = Returning(tun, "InvalidMessage")
  /\ UNCHANGED <<rpc, th, arrived, worker, wlog, ub>>
  /\ TunnelFrame

\* The outer Recv returns EOF: the loop ends and OK is to be returned.
TunnelEOF ==
  /\ mode = "tunnel"
  /\ tun.pc = "serving"
  /\ tun.open = "OK"
  /\ tun' = [Returning(tun, "OK") EXCEPT !.eof = TRUE]
  /\ UNCHANGED <<rpc, th, arrived, worker, wlog, ub, last, nIn>>
  /\ TunnelFrame

\* The locals of HandleRpcStream are destroyed: ~ServerRPC joins
\* invoke_thread_ when it was started, then HandleRpcStream returns.
TunnelJoin ==
  /\ mode = "tunnel"
  /\ tun.pc = "joining"
  /\ worker \in {"none", "done"}
  /\ tun' = [tun EXCEPT !.pc = "done"]
  /\ UNCHANGED <<rpc, th, arrived, worker, wlog, ub, last, nIn>>
  /\ TunnelFrame

\* What the handler of the inner call does with its stream.
HandlerStep(t) ==
  \/ ReadOne(t) \/ RdSleep(t) \/ RdWake(t)
  \/ \E a \in {CloseSendArg, MsgSendArg("a")} : WriteCallData(t, a)
  \/ WdStore(t) \/ WdLock(t)
  \/ MsgClose(t) \/ McCb(t)

InitTunnel ==
  /\ mode = "tunnel"
  /\ InitCommon
  /\ vpkt = NoBodyPacket
  /\ vres = "none"
  /\ InitMuxState
  /\ fallback = <<>>
  /\ exec = NoExec
  /\ pump = NoPump
  /\ \E g \in GetterResults, r \in BOOLEAN :
       tun = [NoTunnel EXCEPT !.pc = "init", !.getter = g, !.relfn = r]

NextTunnel ==
  \/ OpenSend
  \/ TunnelInit
  \/ OpenRecv
  \/ \E pkt \in InPackets : TunnelData(pkt)
  \/ TunnelBadData
  \/ TunnelEOF
  \/ TunnelJoin
  \/ \E t \in Threads : HandlerStep(t)
  \/ \E t \in Threads : SpuriousWake(t)
  \/ \E f \in BOOLEAN, e \in ArgErrs : HandlerReturn(f, e)
  \/ WorkerWrite
  \/ WorkerClose
  \/ WorkerCancel

SpecTunnel == InitTunnel /\ [][NextTunnel]_vars

\* Fair scheduling of the tunnel: HandleRpcStream, the handler's threads
\* inside an operation and the worker go on when they can, and a handler
\* that is inside no operation returns in the end.  Nothing obliges a
\* packet to arrive or a wake-up to be spurious.
FairTunnel ==
  /\ SpecTunnel
  /\ WF_vars(TunnelInit) /\ WF_vars(OpenRecv) /\ WF_vars(TunnelJoin)
  /\ \A t \in Threads : WF_vars(Progress(t))
  /\ WF_vars(\E f \in BOOLEAN, e \in ArgErrs : HandlerReturn(f, e))
  /\ WF_vars(WorkerStep)

\* ------------------------------------------------- ClientImpl::ExecCall
\* Errors open_stream_ may give.
OpenErrs == {"OK", "Unimplemented"}

\* out->ParseFromString(msg): the bytes "b" are no message of the type of
\* out; the empty bytes are its empty message.
ParsesAsOut(msg) == msg # "b"

\* An ExecCall that returns at once when the reply does not parse.
ClosesUnlessParseFails(step) == step # "parse"

\* ExecCall calls Close before it returns from a step at or after Start.
ClosesBeforeReturn(step) == TRUE

\* ExecCall leaves step with err.
ExecLeave(e, step, err) ==
  IF ClosesBeforeReturn(step)
  THEN [e EXCEPT !.pc = "close", !.ret = err]
  ELSE [e EXCEPT !.pc = "done", !.ret = err]

ExecFrame ==
  UNCHANGED <<mode, vpkt, vres, muxVars, tun, pump, mtx, herr, wdeleted,
              delivered, termRet, cancelOK, closes, rpos, tdone, started, nOps>>

\* in.SerializeToString(&first_msg)
ExecSerialize(ok) ==
  /\ mode = "exec"
  /\ exec.pc = "serialize"
  /\ exec' = IF ok THEN [exec EXCEPT !.pc = "open"]
             ELSE [exec EXCEPT !.pc = "done", !.ret = "InvalidMessage"]
  /\ UNCHANGED <<rpc, th, arrived, worker, wlog, ub, last, nIn>>
  /\ ExecFrame

\* NewClientRPC and open_stream_ with the two callbacks.
ExecOpen(err) ==
  /\ mode = "exec"
  /\ exec.pc = "open"
  /\ exec' = IF err = "OK" THEN [exec EXCEPT !.pc = "start", !.opened = TRUE]
             ELSE [exec EXCEPT !.pc = "done", !.ret = err]
  /\ UNCHANGED <<rpc, th, arrived, worker, wlog, ub, last, nIn>>
  /\ ExecFrame

\* Start has returned.
ExecStarted ==
  /\ mode = "exec"
  /\ exec.pc = "start"
  /\ th["t1"].pc = "idle" /\ last.op = "Start"
  /\ exec' = IF last.res = "OK" THEN [exec EXCEPT !.pc = "read"]
             ELSE ExecLeave(exec, "start", last.res)
  /\ UNCHANGED <<rpc, th, arrived, worker, wlog, ub, last, nIn>>
  /\ ExecFrame

\* ReadOne has returned; the reply is parsed when there is one.
ExecRead ==
  /\ mode = "exec"
  /\ exec.pc = "read"
  /\ th["t1"].pc = "idle" /\ last.op = "ReadOne"
  /\ exec' =
       IF last.res # "OK"
       THEN ExecLeave([exec EXCEPT !.read = TRUE], "read", last.res)
       ELSE IF ~ParsesAsOut(delivered["client"][1])
       THEN ExecLeave([exec EXCEPT !.read = TRUE], "parse", "InvalidMessage")
       ELSE [exec EXCEPT !.read = TRUE, !.pc = "close", !.ret = "OK"]
  /\ UNCHANGED <<rpc, th, arrived, worker, wlog, ub, last, nIn>>
  /\ ExecFrame

\* Close has returned and ExecCall returns.
ExecReturn ==
  /\ mode = "exec"
  /\ exec.pc = "close"
  /\ th["t1"].pc = "idle" /\ last.op = "Close"
  /\ exec' = [exec EXCEPT !.pc = "done"]
  /\ UNCHANGED <<rpc, th, arrived, worker, wlog, ub, last, nIn>>
  /\ ExecFrame

\* The packet callback given to open_stream_:
\* client_rpc->HandlePacketData(data); its result goes to the transport.
ExecPacket(pkt) ==
  /\ mode = "exec"
  /\ exec.opened /\ exec.pc # "done"
  /\ nIn < MaxIn
  /\ nIn' = nIn + 1
  /\ HandlePacket("client", pkt)
  /\ UNCHANGED <<exec, last>>
  /\ ExecFrame

\* The close callback given to open_stream_:
\* client_rpc->HandleStreamClose(close_err).
ExecStreamClose(close_err) ==
  /\ mode = "exec"
  /\ exec.opened /\ exec.pc # "done"
  /\ nIn < MaxIn
  /\ nIn' = nIn + 1
  /\ ClientHandleStreamClose("client", close_err)
  /\ UNCHANGED <<exec, last>>
  /\ ExecFrame

\* The transport runs one of the two callbacks after ExecCall has
\* returned: they hold a reference to the local client_rpc, which is
\* destroyed.  What the call does to the freed object is undefined; the
\* model records that it happened.
ExecLateCallback ==
  /\ mode = "exec"
  /\ exec.opened /\ exec.pc = "done"
  /\ nIn < MaxIn
  /\ nIn' = nIn + 1
  /\ exec' = [exec EXCEPT !.late = TRUE]
  /\ UNCHANGED <<rpc, th, arrived, worker, wlog, ub, last>>
  /\ ExecFrame

\* The steps of the thread that runs ExecCall inside its ClientRPC.
ExecStep(t) ==
  \/ \E a \in StartInputs : Start(t, a)
  \/ StLock(t)
  \/ ReadOne(t) \/ RdSleep(t) \/ RdWake(t)
  \/ Close(t)

InitExec ==
  /\ mode = "exec"
  /\ InitCommon
  /\ vpkt = NoBodyPacket
  /\ vres = "none"
  /\ InitMuxState
  /\ fallback = <<>>
  /\ tun = NoTunnel
  /\ pump = NoPump
  /\ exec = [NoExec EXCEPT !.pc = "serialize"]

NextExec ==
  \/ \E ok \in BOOLEAN : ExecSerialize(ok)
  \/ \E err \in OpenErrs : ExecOpen(err)
  \/ ExecStarted
  \/ ExecRead
  \/ ExecReturn
  \/ \E pkt \in InPackets : ExecPacket(pkt)
  \/ \E e \in CloseErrs : ExecStreamClose(e)
  \/ ExecLateCallback
  \/ \E t \in Threads : ExecStep(t)
  \/ \E t \in Threads : SpuriousWake(t)

SpecExec == InitExec /\ [][NextExec]_vars

\* ------------------------------------------------ ClientRPC::Start alone
\* A ClientRPC on which Start is called once, with any arguments, while
\* its transport may deliver packets and close before or after.
InitStart ==
  /\ mode = "start"
  /\ InitCommon
  /\ InitPure

NextStart ==
  \/ \E pkt \in InPackets : TransportPacket("client", pkt)
  \/ \E e \in CloseErrs : TransportClose("client", e)
  \/ \E t \in Threads, a \in StartInputs : Start(t, a)
  \/ \E t \in Threads : StLock(t)

SpecStart == InitStart /\ [][NextStart]_vars

\* ---- A terminal WriteCallData before Start ----

InitEarly ==
  /\ mode = "early"
  /\ InitCommon
  /\ InitPure

EarlyStep(t) ==
  \/ \E a \in StartArgs : Start(t, a)
  \/ StLock(t)
  \/ \E a \in WriteArgs \cup {MsgSendArg("")} : WriteCallData(t, a)
  \/ WdStore(t)
  \/ WdLock(t)
  \/ Close(t)

NextEarly ==
  \/ \E pkt \in InPackets : TransportPacket("client", pkt)
  \/ \E e \in CloseErrs : TransportClose("client", e)
  \/ \E t \in Threads : EarlyStep(t)

SpecEarly == InitEarly /\ [][NextEarly]_vars

\* ---- The packets a ClientRPC gives its writer ----
\* ClientRPC::ClientRPC(service, method) keeps the strings it is given.
InitEmit ==
  /\ mode = "emit"
  /\ \E svc \in {"", "svc"}, mth \in {"", "mth"} :
       rpc = [s \in Sides |->
                IF s = "server" THEN InitServerRPC
                ELSE [InitRPC EXCEPT !.service = svc, !.method = mth]]
  /\ mtx = [s \in Sides |-> NoThread]
  /\ th = [t \in Threads |-> IdleThread]
  /\ worker = "none"
  /\ herr = "OK"
  /\ wlog = [s \in Sides |-> <<>>]
  /\ wdeleted = [s \in Sides |-> FALSE]
  /\ ub = FALSE
  /\ arrived = [s \in Sides |-> <<>>]
  /\ delivered = [s \in Sides |-> <<>>]
  /\ termRet = [s \in Sides |-> "none"]
  /\ cancelOK = [s \in Sides |-> FALSE]
  /\ closes = [s \in Sides |-> 0]
  /\ last = [op |-> "none", res |-> "none", noop |-> FALSE]
  /\ rpos = [s \in Sides |-> 0]
  /\ tdone = [s \in Sides |-> FALSE]
  /\ started = [s \in Sides |-> "no"]
  /\ nIn = 0
  /\ nOps = 0
  /\ InitPure

EmitStep(t) ==
  \/ \E a \in StartInputs : Start(t, a)
  \/ StLock(t)
  \/ \E a \in EmitArgs : WriteCallData(t, a)
  \/ WdStore(t)
  \/ WdLock(t)

NextEmit == \E t \in Threads : EmitStep(t)

SpecEmit == InitEmit /\ [][NextEmit]_vars

\* ------------------------------------------------- rpcstream: ReadPump
\* What Recv gives the pump: an RpcStreamPacket with an init, an ack or a
\* data body; the data of a data body is a Packet as RpcStreamWriter
\* serialized it.
Envelopes ==
  {[body |-> b, data |-> SerializeToString(NoBodyPacket)] : b \in {"init", "ack"}}
    \cup {RpcStreamWritePacket(pkt) : pkt \in InPackets}

\* Errors Recv ends the outer stream with.
RecvErrs == {"EOF", "Canceled"}

\* A pump that gives the handler every envelope.
EnvHasAnyBody(e) == TRUE

\* RpcStreamPacket::has_data
EnvHasData(e) == e.body = "data"

PumpFrame ==
  UNCHANGED <<mode, vpkt, vres, muxVars, tun, exec, mtx, herr, wdeleted,
              delivered, termRet, cancelOK, closes, rpos, tdone, started, nOps>>

\* ReadToHandler, one turn of the loop whose Recv returns an envelope:
\* a data body goes to the handler, ClientRPC::HandlePacketData, and an
\* Error other than OK from it ends the loop.
PumpRecv(e) ==
  /\ mode = "pump"
  /\ pump.pc = "running"
  /\ nIn < MaxIn
  /\ nIn' = nIn + 1
  /\ IF EnvHasData(e)
     THEN LET inner == ParseFromString(e.data)
              err == HandlePacketErr("client", inner)
          IN /\ HandlePacket("client", inner)
             /\ last' = [op |-> "HandlePacket", res |-> err, noop |-> FALSE]
             /\ pump' = [pump EXCEPT
                  !.env = Append(@, e),
                  !.fwd = Append(@, e.data),
                  !.pc = IF err = "OK" THEN @ ELSE "closing",
                  !.cerr = IF err = "OK" THEN @ ELSE err,
                  !.end = IF err = "OK" THEN @ ELSE "handler"]
     ELSE /\ pump' = [pump EXCEPT !.env = Append(@, e)]
          /\ UNCHANGED <<rpc, th, arrived, worker, wlog, ub, last>>
  /\ PumpFrame

\* ReadToHandler, Recv returns an Error: the loop ends, and ReadPump
\* turns EOF into OK.
PumpEnd(recv_err) ==
  /\ mode = "pump"
  /\ pump.pc = "running"
  /\ pump' = [pump EXCEPT
       !.pc = "closing",
       !.cerr = IF recv_err = "EOF" THEN "OK" ELSE recv_err,
       !.end = recv_err]
  /\ UNCHANGED <<rpc, th, arrived, worker, wlog, ub, last, nIn>>
  /\ PumpFrame

\* ReadPump: close_handler(err), ClientRPC::HandleStreamClose.
PumpClose ==
  /\ mode = "pump"
  /\ pump.pc = "closing"
  /\ ClientHandleStreamClose("client", pump.cerr)
  /\ pump' = [pump EXCEPT !.pc = "closed", !.closes = @ + 1]
  /\ last' = [op |-> "HandleStreamClose", res |-> "OK", noop |-> FALSE]
  /\ UNCHANGED nIn
  /\ PumpFrame

\* NewRpcStreamOpenStream has returned: the pump thread runs, and the call
\* has not been started.
InitPump ==
  /\ mode = "pump"
  /\ InitCommon
  /\ vpkt = NoBodyPacket
  /\ vres = "none"
  /\ InitMuxState
  /\ fallback = <<>>
  /\ tun = NoTunnel
  /\ exec = NoExec
  /\ pump = [NoPump EXCEPT !.pc = "running"]

PumpUserStep(t) ==
  \/ \E a \in StartArgs : Start(t, a)
  \/ StLock(t)
  \/ ReadOne(t) \/ RdSleep(t) \/ RdWake(t)

NextPump ==
  \/ \E e \in Envelopes : PumpRecv(e)
  \/ \E e \in RecvErrs : PumpEnd(e)
  \/ PumpClose
  \/ \E t \in Threads : PumpUserStep(t)
  \/ \E t \in Threads : SpuriousWake(t)

SpecPump == InitPump /\ [][NextPump]_vars

\* The pump thread and a thread inside an operation go on when they can;
\* the pump thread waits for mtx_ in close_handler and gets it when it is
\* free again and again.  Nothing obliges the outer stream to deliver or
\* to end.
FairPump ==
  /\ SpecPump
  /\ SF_vars(PumpClose)
  /\ \A t \in Threads : WF_vars(Progress(t))

\* ------------------------------------- end to end, a call that fails
\* Invoker::InvokeMethod returns (found, err) to InvokeRPC: at once when
\* no handler was found, after the handler otherwise.
InvokeReturn(found, err) ==
  /\ mode = "invoke"
  /\ worker = "handler"
  /\ th["t2"].pc = "idle"
  /\ ~found => wlog["server"] = <<>>
  /\ worker' = "write"
  /\ herr' = InvokeErr(found, err)
  /\ UNCHANGED <<rpc, th, wlog, ub>>
  /\ WorkerFrame

InitInvoke ==
  /\ mode = "invoke"
  /\ InitCommon
  /\ InitPure

InvokeStep(t) ==
  \/ ReadOne(t) \/ RdSleep(t) \/ RdWake(t)
  \/ \E a \in WriteArgs : WriteCallData(t, a)
  \/ WdStore(t) \/ WdLock(t)
  \/ \E a \in StartArgs : Start(t, a)
  \/ StLock(t)

NextInvoke ==
  \/ \E s \in Sides : Recv(s)
  \/ ServerRecvFails
  \/ \E t \in Threads : InvokeStep(t)
  \/ \E f \in BOOLEAN, e \in ArgErrs : InvokeReturn(f, e)
  \/ WorkerWrite
  \/ WorkerClose
  \/ WorkerCancel

SpecInvoke == InitInvoke /\ [][NextInvoke]_vars

\* ----------------------------------------- the writer, one call at a time
\* The writers of one call, with WritePacket entered and left in two steps:
\* a thread that is inside WritePacket under std::lock_guard holds mtx_
\* until it leaves.
InWritePacket == {"wp_data", "wp_start", "wp_cancel"}

\* A lock_guard that never waits.
MtxIgnored(s) == TRUE

\* std::lock_guard<std::mutex> lock(mtx_) can be taken.
MtxFree(s) == mtx[s] = NoThread

WriterFrame ==
  UNCHANGED <<mode, pureVars, herr, arrived, rpos, tdone, nIn, wdeleted, ub,
              delivered, termRet, closes>>

\* WriteCallData takes mtx_ and, with a writer, enters WritePacket.
WdEnter(t) ==
  LET s == SideOf(t) IN
  /\ mode \in {"wclient", "wserver"}
  /\ th[t].pc = "wd_lock"
  /\ MtxFree(s)
  /\ IF ~rpc[s].writer
     THEN /\ last' = Ret("WriteCallData", "NilWriter")
          /\ th' = Return(th, t)
          /\ UNCHANGED mtx
     ELSE /\ th' = [th EXCEPT ![t].pc = "wp_data"]
          /\ mtx' = [mtx EXCEPT ![s] = t]
          /\ UNCHANGED last
  /\ UNCHANGED <<rpc, wlog, worker, cancelOK, started, nOps>>
  /\ WriterFrame

\* Start takes mtx_, attaches the writer and enters WritePacket.
StEnter(t) ==
  LET s == SideOf(t) IN
  /\ mode \in {"wclient", "wserver"}
  /\ th[t].pc = "st_lock"
  /\ MtxFree(s)
  /\ rpc' = [rpc EXCEPT ![s].writer = TRUE]
  /\ th' = [th EXCEPT ![t].pc = "wp_start"]
  /\ mtx' = [mtx EXCEPT ![s] = t]
  /\ UNCHANGED <<wlog, worker, cancelOK, started, last, nOps>>
  /\ WriterFrame

\* WriteCallCancel takes mtx_ and WriteCallCancelLocked sets the latch and,
\* with a writer on a call not yet completed, enters WritePacket.
CcEnter(t) ==
  LET s == SideOf(t) IN
  /\ mode \in {"wclient", "wserver"}
  /\ Call(t, "WriteCallCancel", NoArg)
  /\ MtxFree(s)
  /\ rpc' = [rpc EXCEPT ![s].local_completed = TRUE]
  /\ IF CallCancelErr(rpc[s]) = "OK"
     THEN /\ th' = [th EXCEPT ![t].pc = "wp_cancel"]
          /\ mtx' = [mtx EXCEPT ![s] = t]
          /\ UNCHANGED last
     ELSE /\ last' = Ret("WriteCallCancel", CallCancelErr(rpc[s]))
          /\ UNCHANGED <<th, mtx>>
  /\ UNCHANGED <<wlog, worker, cancelOK, started>>
  /\ WriterFrame

\* WritePacket returns, and the lock_guard is destroyed.
WpExit(t) ==
  LET s == SideOf(t)
      a == th[t].arg
      pkt == CASE th[t].pc = "wp_data" ->
                    NewCallDataPacket(a.data, a.data = "" /\ a.diz,
                                      a.complete, a.err)
               [] th[t].pc = "wp_start" ->
                    NewCallStartPacket(rpc[s].service, rpc[s].method, a.data,
                                       a.wfm /\ a.data = "")
               [] OTHER -> NewCallCancelPacket
      op == CASE th[t].pc = "wp_data" -> "WriteCallData"
              [] th[t].pc = "wp_start" -> "Start"
              [] OTHER -> "WriteCallCancel"
  IN
  /\ mode \in {"wclient", "wserver"}
  /\ th[t].pc \in InWritePacket
  /\ wlog' = [wlog EXCEPT ![s] = Append(@, pkt)]
  /\ mtx' = [mtx EXCEPT ![s] = NoThread]
  /\ th' = Return(th, t)
  /\ last' = Ret(op, "OK")
  /\ started' = IF th[t].pc = "wp_start"
                THEN [started EXCEPT ![s] = "ok"] ELSE started
  /\ cancelOK' = IF th[t].pc = "wp_cancel"
                 THEN [cancelOK EXCEPT ![s] = TRUE] ELSE cancelOK
  /\ UNCHANGED <<rpc, worker, nOps>>
  /\ WriterFrame

\* InvokeRPC enters writer_->WritePacket with the terminal packet; it
\* takes no lock.
WorkerEnter ==
  /\ mode = "wserver"
  /\ worker = "write"
  /\ worker' = "writing"
  /\ UNCHANGED <<rpc, th, wlog, ub, herr>>
  /\ WorkerFrame

\* The WritePacket of the terminal packet returns.
WorkerExit ==
  /\ mode = "wserver"
  /\ worker = "writing"
  /\ wlog' = [wlog EXCEPT
       !["server"] = Append(@, NewCallDataPacket("", FALSE, TRUE, herr))]
  /\ worker' = "close"
  /\ UNCHANGED <<rpc, th, ub, herr>>
  /\ WorkerFrame

\* The threads inside WritePacket on the writer of side s.
InsideWritePacket(s) ==
  {t \in Threads : SideOf(t) = s /\ th[t].pc \in InWritePacket}
    \cup (IF s = "server" /\ worker = "writing" THEN {"worker"} ELSE {})

InitWriters ==
  /\ mode \in {"wclient", "wserver"}
  /\ InitCommon
  /\ InitPure

WriterStep(t) ==
  \/ \E a \in StartArgs : Start(t, a)
  \/ \E a \in WriteArgs : WriteCallData(t, a)
  \/ WdStore(t)
  \/ WdEnter(t) \/ StEnter(t) \/ CcEnter(t)
  \/ WpExit(t)

NextWriters ==
  \/ \E s \in Sides, pkt \in InPackets : TransportPacket(s, pkt)
  \/ \E t \in Threads : WriterStep(t)
  \/ \E f \in BOOLEAN, e \in ArgErrs : HandlerReturn(f, e)
  \/ WorkerEnter
  \/ WorkerExit
  \/ WorkerClose
  \/ WorkerCancel

SpecWriters == InitWriters /\ [][NextWriters]_vars

\* ------------------------------------------------------------ properties

\* A terminal packet: CallData with complete set, or CallCancel.
IsTerminal(e) ==
  \/ e.body = "CallData" /\ e.complete
  \/ e.body = "CallCancel"

\* C1: at every moment the payloads ReadOne has returned with OK, followed
\* by the payloads still queued, are exactly the payloads that arrived
\* before data_closed_ latched, in arrival order: nothing is skipped,
\* duplicated or reordered.
C1_InOrderDelivery ==
  \A s \in Sides : delivered[s] \o rpc[s].data_queue = arrived[s]

\* C1 witness: two different payloads arrived and both were read, in order.
C1_Witness ==
  \E s \in Sides :
    /\ Len(delivered[s]) = 2
    /\ delivered[s][1] # delivered[s][2]
    /\ delivered[s] = arrived[s]

\* C2: once a ReadOne has returned EOF or a terminal error on a call, no
\* later step returns a payload with OK from that call.
C2_NoPayloadAfterTerminal ==
  [][\A s \in Sides :
       termRet[s] # "none" => delivered'[s] = delivered[s]]_vars

\* C3: a ReadOne that returns Canceled on the path that runs CloseLocked
\* (the step latches data_closed_) decides with an empty queue and with
\* remote_err_ OK.
C3_CanceledOnlyWhenQueueEmpty ==
  [][\A s \in Sides :
       ( /\ last'.op = "ReadOne" /\ last'.res = "Canceled"
         /\ ~rpc[s].data_closed /\ rpc'[s].data_closed )
       => (rpc[s].data_queue = <<>> /\ rpc[s].remote_err = "OK")]_vars

\* C4: each side passes at most one terminal packet to its writer.
C4_AtMostOneTerminal ==
  \A s \in Sides :
    Cardinality({i \in DOMAIN wlog[s] : IsTerminal(wlog[s][i])}) <= 1

\* C5: once the server worker has written its terminal CallData, that
\* packet is the last packet the writer was given and no Close of the
\* writer precedes it.
C5_TerminalLastBeforeClose ==
  worker \in {"close", "cancel", "done"} =>
    LET log == wlog["server"]
        pk == {i \in DOMAIN log : IsPacket(log[i])}
    IN /\ pk # {}
       /\ LET k == CHOOSE i \in pk : \A j \in pk : j <= i
          IN /\ log[k].body = "CallData" /\ log[k].complete
             /\ \A i \in 1..k : log[i] # CloseEvent

\* C6: under fair scheduling, whenever canceled_ is set while the reader is
\* inside the wait of ReadOne (predicate evaluated and about to sleep,
\* asleep, or woken), that ReadOne eventually returns.
C6_CancelWakesReader ==
  ( /\ rpc[SideOf(Reader)].canceled
    /\ th[Reader].pc \in {"rd_presleep", "rd_sleep", "rd_wake"} )
  ~> (th[Reader].pc = "idle")

\* C7: after WriteCallCancel has returned OK, a WriteCallData call never
\* gets past the test of local_completed_: it returns at once, passes
\* nothing to the writer, and returns OK for the no-op form and Completed
\* for every other form.
C7_CompletedAfterCancel ==
  [][\A s \in Sides : cancelOK[s] =>
       /\ \A t \in Threads :
            (SideOf(t) = s /\ th[t].pc = "idle")
            => th'[t].pc \notin {"wd_store", "wd_lock"}
       /\ (last' # last /\ last'.op = "WriteCallData")
          => /\ wlog'[s] = wlog[s]
             /\ last'.res = (IF last'.noop THEN "OK" ELSE "Completed")]_vars

\* C7 witness: a WriteCallData after a successful WriteCallCancel returned
\* Completed.
C7_Witness ==
  \E s \in Live :
    /\ cancelOK[s]
    /\ last = [op |-> "WriteCallData", res |-> "Completed", noop |-> FALSE]

\* C8: once canceled_ is set on a side, a step gives that side's writer no
\* packet, except one CallCancel when none was written before.
C8_NoPacketAfterCanceled ==
  [][\A s \in Sides : rpc[s].canceled =>
       \/ Packets(wlog'[s]) = Packets(wlog[s])
       \/ /\ Packets(wlog'[s]) = Append(Packets(wlog[s]), NewCallCancelPacket)
          /\ \A i \in DOMAIN wlog[s] : wlog[s][i] # NewCallCancelPacket]_vars

\* C9: when a Close of the stream has completed, every step of a later
\* ClientRPC::Close or MsgStream::Close passes no packet to the writer and
\* uses no deleted object.
C9_SecondCloseSilent ==
  [][\A s \in Sides : closes[s] >= 1 =>
       \A t \in Threads :
         ( /\ SideOf(t) = s
           /\ \/ closes'[s] # closes[s]
              \/ th[t].pc = "idle" /\ th'[t].pc = "mc_cb"
              \/ th[t].pc = "mc_cb" /\ th'[t].pc = "idle" )
         => (Packets(wlog'[s]) = Packets(wlog[s]) /\ ub' = ub)]_vars

\* C10: end to end, the payloads the client has read are the first of the
\* payloads the server handler sent, each the request; and a client
\* ReadOne that does not return OK returns EOF, after the handler has sent
\* NumMsgs messages and returned OK and after the client has read exactly
\* those NumMsgs payloads in send order.
C10_ServerStream ==
  LET sent == SentPayloads(wlog["server"])
      got == delivered["client"]
  IN /\ Len(got) <= Len(sent)
     /\ \A i \in DOMAIN got : got[i] = sent[i].data
     /\ \A i \in DOMAIN sent : sent[i].data = "a"
     /\ termRet["client"] # "none" =>
          /\ termRet["client"] = "EOF"
          /\ worker \in {"close", "cancel", "done"} /\ herr = "OK"
          /\ Len(sent) = NumMsgs /\ Len(got) = NumMsgs

\* C10 witness: the client read NumMsgs payloads and then got EOF.
C10_Witness ==
  /\ mode = "e2e"
  /\ Len(delivered["client"]) = NumMsgs
  /\ termRet["client"] = "EOF"

\* C11: against the echoing handler, the payloads the client has read are
\* the first of the payloads it sent, no client ReadOne fails, and under
\* fair scheduling the k-th ReadOne, once called, returns its payload
\* unless RunServer's receive loop has given up.
C11_EchoRoundTrip ==
  /\ [](LET sent == PayloadsOf(wlog["client"])
            got == delivered["client"]
        IN /\ Len(got) <= Len(sent)
           /\ \A i \in DOMAIN got : got[i] = sent[i]
           /\ termRet["client"] = "none")
  /\ \A k \in 1..NumEcho :
       (th["t1"].pc \in {"rd_top", "rd_presleep", "rd_sleep", "rd_wake"}
          /\ Len(delivered["client"]) = k - 1)
       ~> (Len(delivered["client"]) >= k \/ tdone["server"])

\* C11 witness: by turns, the client sent NumEcho payloads and read each
\* of them back.
C11_Witness ==
  /\ mode \in {"bidi", "bidi1"}
  /\ Len(delivered["client"]) = NumEcho
  /\ delivered["client"] = [k \in 1..NumEcho |-> EchoPayload(k)]

\* C12: the client's WriteCallData("", false, true, OK) sets local_completed
\* and leaves every other field of the client call as it was; the handler
\* reads every payload the client sent before its Recv returns EOF, and it
\* sees no other error; the reads the client makes after the half-close
\* return the handler's responses in order and never fail.
C12_HalfCloseLeavesReadOpen ==
  /\ [][(rpc'["client"].local_completed /\ ~rpc["client"].local_completed)
          => rpc'["client"] = [rpc["client"] EXCEPT !.local_completed = TRUE]]_vars
  /\ [](termRet["server"] \in {"none", "EOF"})
  /\ [](termRet["server"] = "EOF"
          => /\ rpc["client"].local_completed
             /\ delivered["server"] = PayloadsOf(wlog["client"]))
  /\ [](mode = "cstream"
          => /\ termRet["client"] = "none"
             /\ Len(delivered["client"]) <= Len(PayloadsOf(wlog["server"]))
             /\ \A i \in DOMAIN delivered["client"] :
                  delivered["client"][i] = PayloadsOf(wlog["server"])[i])
  /\ [][Len(delivered'["client"]) > Len(delivered["client"]) /\ mode = "cstream"
          => /\ rpc["client"].local_completed
             /\ last'.op = "ReadOne" /\ last'.res = "OK"]_vars

\* C12 witness: the client half-closed, the handler read the payloads and
\* then EOF, and the client has read a response after the half-close.
C12_Witness ==
  /\ mode = "cstream"
  /\ rpc["client"].local_completed
  /\ ~rpc["client"].data_closed
  /\ termRet["server"] = "EOF"
  /\ Len(delivered["server"]) = NumEcho
  /\ Len(delivered["client"]) >= 1

\* C13: a CallStart or CallData taken by a call whose read side is open
\* appends its data to the queue when the data is non-empty or
\* data_is_zero is set, and appends nothing otherwise; CallData with no
\* data, no data_is_zero and complete=true changes nothing but
\* data_closed; and ReadOne hands out the front of the queue with OK, the
\* empty payload included.
C13_PayloadIffDataOrZero ==
  /\ [][(nIn' # nIn /\ last'.op = "HandlePacket" /\ last'.res = "OK")
          => \A s \in Live : \A pkt \in InPackets :
               (/\ ~rpc[s].data_closed
                /\ pkt.body \in {"CallStart", "CallData"}
                /\ HandlePacketErr(s, pkt) = "OK"
                /\ TransportPacket(s, pkt))
               => /\ rpc'[s].data_queue =
                       IF pkt.data # "" \/ pkt.diz
                       THEN rpc[s].data_queue \o <<pkt.data>>
                       ELSE rpc[s].data_queue
                  /\ (pkt.body = "CallData" /\ pkt.data = "" /\ ~pkt.diz
                        /\ pkt.complete /\ pkt.error = "")
                       => rpc'[s] = [rpc[s] EXCEPT !.data_closed = TRUE]]_vars
  /\ [][\A s \in Sides :
          Len(delivered'[s]) > Len(delivered[s])
          => /\ rpc[s].data_queue # <<>>
             /\ delivered'[s] = Append(delivered[s], Head(rpc[s].data_queue))
             /\ rpc'[s].data_queue = Tail(rpc[s].data_queue)
             /\ last'.op = "ReadOne" /\ last'.res = "OK"]_vars

\* C13 witness: a packet with data_is_zero was taken and ReadOne returned
\* its empty payload.
C13_Witness ==
  \E s \in Sides :
    /\ arrived[s] # <<>> /\ arrived[s][1] = ""
    /\ delivered[s] = <<"">>
    /\ last.op = "ReadOne" /\ last.res = "OK"

\* The errors of a packet that is no well-formed packet for this call.
StructureErrs ==
  {"InvalidMessage", "EmptyPacket", "EmptyServiceID", "EmptyMethodID",
   "UnrecognizedPacket"}

\* C14: a HandlePacketData or HandlePacket that returns InvalidMessage,
\* EmptyPacket, EmptyServiceID, EmptyMethodID or UnrecognizedPacket leaves
\* every field of the call as it was, wakes no reader, writes nothing and
\* starts no worker.
C14_StructureErrorLeavesState ==
  [][(nIn' # nIn /\ last'.op = "HandlePacket" /\ last'.res \in StructureErrs)
       => /\ rpc' = rpc /\ worker' = worker /\ th' = th
          /\ wlog' = wlog /\ arrived' = arrived]_vars

\* C14 witness: a ClientRPC was handed a CallStart and returned
\* UnrecognizedPacket.
C14_Witness ==
  /\ mode = "client"
  /\ last = [op |-> "HandlePacket", res |-> "UnrecognizedPacket", noop |-> FALSE]
  /\ started["client"] = "ok"

\* C15: a CallData handled by a call whose data_closed is set changes no
\* field of the call, enqueues nothing and wakes nobody; HandlePacket
\* returns OK when the packet has complete=true and Completed otherwise.
C15_ClosedCallDataIgnored ==
  [][(nIn' # nIn /\ last'.op = "HandlePacket")
       => \A s \in Live : \A pkt \in InPackets :
            (/\ rpc[s].data_closed
             /\ pkt.body = "CallData" /\ ValidatePacket(pkt) = "OK"
             /\ TransportPacket(s, pkt))
            => /\ rpc' = rpc /\ th' = th /\ arrived' = arrived
               /\ wlog' = wlog /\ worker' = worker
               /\ last'.res = IF pkt.complete THEN "OK" ELSE "Completed"]_vars

\* C15 witness: a client call whose read side was closed was handed a
\* CallData without complete and returned Completed.
C15_Witness ==
  /\ mode = "client"
  /\ rpc["client"].data_closed
  /\ last = [op |-> "HandlePacket", res |-> "Completed", noop |-> FALSE]

\* C16: on a ServerRPC a CallStart that arrives when service or method is
\* set, or data_closed is set, returns Completed and changes nothing; a
\* worker starts only from the state without worker, service and method,
\* and service, method and the worker never go back to that state: at
\* most one CallStart is accepted and at most one worker is launched.
C16_AtMostOneCallStart ==
  /\ [][(nIn' # nIn /\ last'.op = "HandlePacket")
          => \A pkt \in InPackets :
               (/\ pkt.body = "CallStart" /\ ValidatePacket(pkt) = "OK"
                /\ \/ rpc["server"].service # ""
                   \/ rpc["server"].method # ""
                   \/ rpc["server"].data_closed
                /\ TransportPacket("server", pkt))
               => /\ last'.res = "Completed"
                  /\ rpc' = rpc /\ worker' = worker /\ th' = th
                  /\ arrived' = arrived /\ wlog' = wlog]_vars
  /\ [][(worker' = "handler" /\ worker # "handler")
          => /\ worker = "none"
             /\ rpc["server"].service = "" /\ rpc["server"].method = ""
             /\ rpc'["server"].service # "" /\ rpc'["server"].method # ""]_vars
  /\ [][/\ worker # "none" => worker' # "none"
        /\ rpc["server"].service # ""
             => rpc'["server"].service = rpc["server"].service
        /\ rpc["server"].method # ""
             => rpc'["server"].method = rpc["server"].method]_vars

\* C16 witness: a ServerRPC whose worker was launched by a first CallStart
\* was handed a second CallStart and returned Completed.
C16_Witness ==
  /\ mode = "server"
  /\ rpc["server"].service # ""
  /\ ~rpc["server"].data_closed
  /\ worker # "none"
  /\ nIn = 2
  /\ last = [op |-> "HandlePacket", res |-> "Completed", noop |-> FALSE]

\* C17: on a ServerRPC that has accepted no CallStart (service and method
\* are empty), handling a CallData or a CallCancel leaves every field of
\* the call as it was.
C17_NothingAppliedBeforeCallStart ==
  [][(nIn' # nIn /\ last'.op = "HandlePacket" /\ mode = "server"
        /\ rpc["server"].service = "" /\ rpc["server"].method = "")
       => \A pkt \in InPackets :
            (pkt.body \in {"CallData", "CallCancel"}
               /\ TransportPacket("server", pkt))
            => rpc' = rpc]_vars

\* C18: ValidatePacket returns EmptyMethodID exactly for a CallStart with
\* empty rpc_method, EmptyServiceID exactly for a CallStart with rpc_method
\* set and empty rpc_service, EmptyPacket exactly for a CallData with data
\* empty, data_is_zero false, complete false and error empty,
\* UnrecognizedPacket exactly for a packet without body, and OK for every
\* other packet.
C18_ValidatePacket ==
  vres # "none" =>
    LET start == vpkt.body = "CallStart"
        noMth == start /\ vpkt.mth = ""
        noSvc == start /\ vpkt.mth # "" /\ vpkt.svc = ""
        empty == /\ vpkt.body = "CallData"
                 /\ vpkt.data = "" /\ ~vpkt.diz
                 /\ ~vpkt.complete /\ vpkt.error = ""
        noBody == vpkt.body \notin {"CallStart", "CallData", "CallCancel"}
    IN /\ (vres = "EmptyMethodID") = noMth
       /\ (vres = "EmptyServiceID") = noSvc
       /\ (vres = "EmptyPacket") = empty
       /\ (vres = "UnrecognizedPacket") = noBody
       /\ (vres = "OK") = ~(noMth \/ noSvc \/ empty \/ noBody)

\* C18 witness: a CallStart with neither service nor method was validated
\* and EmptyMethodID came back.
C18_Witness ==
  /\ vpkt.body = "CallStart" /\ vpkt.svc = "" /\ vpkt.mth = ""
  /\ vres = "EmptyMethodID"

\* C18 as stated: EmptyServiceID exactly for a CallStart with empty
\* rpc_service, whatever its rpc_method, and the other results as above.
C18_AsStated ==
  vres # "none" =>
    LET start == vpkt.body = "CallStart"
        noMth == start /\ vpkt.mth = ""
        noSvc == start /\ vpkt.svc = ""
        empty == /\ vpkt.body = "CallData"
                 /\ vpkt.data = "" /\ ~vpkt.diz
                 /\ ~vpkt.complete /\ vpkt.error = ""
        noBody == vpkt.body \notin {"CallStart", "CallData", "CallCancel"}
    IN /\ (vres = "EmptyMethodID") = noMth
       /\ (vres = "EmptyServiceID") = noSvc
       /\ (vres = "EmptyPacket") = empty
       /\ (vres = "UnrecognizedPacket") = noBody
       /\ (vres = "OK") = ~(noMth \/ noSvc \/ empty \/ noBody)

\* The handler whose Register for (service, method) returned OK last.
MostRecent(s, m) ==
  LET idx == {i \in DOMAIN regLog :
                GetServiceID(regLog[i]) = s /\ m \in GetMethodIDs(regLog[i])}
  IN regLog[CHOOSE i \in idx : \A j \in idx : j <= i]

\* What C19 says of the pair (s, m) of a handler whose Register returned OK.
RegisteredPairServed(s, m) ==
  /\ HasService(s)
  /\ HasServiceMethod(s, m)
  /\ Lookup(s, m) = {MostRecent(s, m)}
  /\ \A h \in Lookup("", m) : h # "none" /\ m \in GetMethodIDs(h)
  /\ (mres.op = "HasService" /\ mres.svc = s) => mres.found
  /\ (mres.op = "HasServiceMethod" /\ mres.svc = s /\ mres.mth = m)
       => mres.found
  /\ (mres.op = "InvokeMethod" /\ mres.svc = s /\ mres.mth = m)
       => mres.handler = MostRecent(s, m) /\ mres.called = <<>>
  /\ (mres.op = "InvokeMethod" /\ mres.svc = "" /\ mres.mth = m)
       => /\ mres.handler \in Handlers
          /\ m \in GetMethodIDs(mres.handler)
          /\ mres.handler \in {regLog[i] : i \in DOMAIN regLog}

C20_FallbackOrder ==
  mres.op = "InvokeMethod" =>
    LET live == SelectSeq([i \in 1..Len(fallback) |-> i],
                          LAMBDA i : ~fallback[i].null)
        stop == {k \in DOMAIN live :
                   fallback[live[k]].ret[1] \/ fallback[live[k]].ret[2] # "OK"}
    IN /\ (mres.handler = "none") = (Lookup(mres.svc, mres.mth) = {"none"})
       /\ mres.handler # "none" => mres.called = <<>>
       /\ mres.handler = "none" =>
            IF stop = {}
            THEN /\ mres.called = live
                 /\ ~mres.found /\ mres.err = "OK"
            ELSE LET k == CHOOSE k \in stop : \A j \in stop : k <= j
                 IN /\ mres.called = SubSeq(live, 1, k)
                    /\ <<mres.found, mres.err>> = fallback[live[k]].ret

\* C20 witness: the primary map had no handler, the first fallback
\* answered (false, OK), the second answered with an error, and
\* InvokeMethod returned that error after calling both.
C20_Witness ==
  /\ mres.op = "InvokeMethod" /\ mres.handler = "none"
  /\ Len(fallback) = 2
  /\ fallback[1].ret = <<FALSE, "OK">> /\ ~fallback[1].null
  /\ mres.called = <<1, 2>>
  /\ ~mres.found /\ mres.err = "Unimplemented"

\* The services_ a Register in progress leaves when its loop is done.
RegAfter ==
  LET s == GetServiceID(reg.h)
      old == IF s \in DOMAIN reg.before THEN reg.before[s] ELSE <<>>
  IN [x \in DOMAIN reg.before \cup {s} |->
        IF x = s THEN RegisterMethods(old, reg.h) ELSE reg.before[x]]

\* The methods of the service of the Register in progress that a lookup
\* finds in services_.
SeenMethods(svcs) ==
  LET s == GetServiceID(reg.h)
  IN IF s \in DOMAIN svcs THEN [m \in DOMAIN svcs[s] |-> svcs[s][m]] ELSE <<>>

\* services_ after the Register calls of log, each taken as a whole.
RECURSIVE ServicesAfter(_)
ServicesAfter(log) ==
  IF log = <<>> THEN <<>>
  ELSE LET prev == ServicesAfter(SubSeq(log, 1, Len(log) - 1))
           h == log[Len(log)]
           s == GetServiceID(h)
           old == IF s \in DOMAIN prev THEN prev[s] ELSE <<>>
       IN [x \in DOMAIN prev \cup {s} |->
             IF x = s THEN RegisterMethods(old, h) ELSE prev[x]]

\* C21: every InvokeMethod, HasService and HasServiceMethod runs on a
\* services_ that is the result of a whole number of Register calls: of
\* those that have returned, or of those and the one that is about to
\* return; never on the map a Register has stored only a part of its
\* methods in.
C21_RegisterAtomic ==
  [][(mres' # mres
        /\ mres'.op \in {"InvokeMethod", "HasService", "HasServiceMethod"})
       => \/ services = ServicesAfter(regLog)
          \/ reg.h # "none" /\ reg.todo = {}
               /\ services = ServicesAfter(Append(regLog, reg.h))]_vars

\* C21 witness: HasServiceMethod of a method returned false, and now a
\* Register of a handler with that and another method has stored one of
\* the two and holds mtx_.
C21_Witness ==
  /\ reg.h = "h1"
  /\ reg.todo \in {{"m1"}, {"m2"}}
  /\ SeenMethods(services) # SeenMethods(reg.before)
  /\ SeenMethods(services) # SeenMethods(RegAfter)
  /\ mres.op = "HasServiceMethod" /\ mres.svc = "svc1" /\ ~mres.found

C24_EOFReturns ==
  (mode = "tunnel" /\ tun.eof)
    ~> (/\ tun.pc = "done"
        /\ tun.ret = "OK"
        /\ tun.released = IF tun.relfn THEN 1 ELSE 0)

\* The Close calls ExecCall has made: the calls on its ClientRPC are
\* counted (Start apart), and ReadOne is one of them once it was called.
ExecCloseCalls ==
  LET reading == exec.pc = "read"
                   /\ (th["t1"].pc # "idle" \/ last.op = "ReadOne")
  IN nOps - (IF reading \/ exec.read THEN 1 ELSE 0)

\* C25: ExecCall returns the error of the first step that failed
\* (serialize, open the stream, Start, ReadOne, parse) and OK when none
\* did, and when it returns after the stream was opened it has called
\* Close on its ClientRPC exactly once, and never more than once before.
C25_ExecCallClosesOnce ==
  mode = "exec" =>
    /\ ExecCloseCalls <= 1
    /\ (exec.pc = "done") =>
         /\ ExecCloseCalls = IF exec.opened THEN 1 ELSE 0
         /\ exec.ret =
              CASE ~exec.opened -> exec.ret
                [] started["client"] = "failed" -> "Canceled"
                [] termRet["client"] # "none" -> termRet["client"]
                [] ~ParsesAsOut(delivered["client"][1]) -> "InvalidMessage"
                [] OTHER -> "OK"
         /\ ~exec.opened => exec.ret \in {"InvalidMessage", "Unimplemented"}
                              /\ started["client"] = "no"

\* C25 witness: the reply was read but did not parse, and ExecCall has
\* returned InvalidMessage after its Close.
C25_Witness ==
  /\ exec.pc = "done"
  /\ exec.read /\ termRet["client"] = "none"
  /\ exec.ret = "InvalidMessage"
  /\ last.op = "Close"

\* C26: a Start that returned OK has given the writer exactly one
\* CallStart, with the service and the method of the call; with
\* write_first_msg its data is first_msg and data_is_zero tells that
\* first_msg is empty, without write_first_msg its data is empty and
\* data_is_zero is false.
C26_StartEmitsCallStart ==
  [][\A t \in Threads :
       (mode = "start" /\ StLock(t))
         => LET a == th[t].arg
                new == SubSeq(wlog'["client"], Len(wlog["client"]) + 1,
                              Len(wlog'["client"]))
            IN new = << NewCallStartPacket("svc", "mth",
                          IF a.wfm THEN a.data ELSE "",
                          a.wfm /\ a.data = "") >>]_vars

\* C27: a Start called on a call that is already canceled returns
\* Canceled and asks the supplied writer to close and nothing else: no
\* CallStart is written and the writer is not attached to the call, then
\* or later.
C27_StartOnCanceled ==
  /\ [][\A t \in Threads, a \in StartInputs :
          (mode = "start" /\ rpc["client"].canceled /\ Start(t, a))
            => /\ last' = [op |-> "Start", res |-> "Canceled", noop |-> FALSE]
               /\ wlog'["client"] = <<CloseEvent>>
               /\ rpc' = rpc
               /\ started'["client"] = "failed"]_vars
  /\ [](mode = "start" /\ started["client"] = "failed"
          => /\ ~rpc["client"].writer
             /\ wlog["client"] = <<CloseEvent>>
             /\ \A t \in Threads : th[t].pc = "idle")

\* C27 witness: the transport closed before Start, and Start has
\* returned Canceled.
C27_Witness ==
  /\ mode = "start"
  /\ started["client"] = "failed"
  /\ rpc["client"].data_closed /\ rpc["client"].canceled
  /\ last.op = "Start" /\ last.res = "Canceled"

\* C28: when InvokeMethod gave not-found with OK or an error, the worker
\* writes a CallData with complete and a non-empty error, and a ReadOne of
\* the client that ends the reading after that returns an error that is
\* neither OK nor EOF.
C28_HandlerErrorReachesCaller ==
  (mode = "invoke" /\ herr # "OK" /\ worker \in {"close", "cancel", "done"})
    => /\ \E i \in DOMAIN wlog["server"] :
            /\ wlog["server"][i].body = "CallData"
            /\ wlog["server"][i].complete
            /\ wlog["server"][i].error # ""
       /\ termRet["client"] \notin {"OK", "EOF"}

\* C29: a HandleStreamClose on a call whose writer is set leaves the call
\* data_closed_ and canceled_ and the writer closed: the last thing the
\* writer was asked is Close.
C29_StreamCloseClosesWriter ==
  [][\A s \in Live :
       (nIn' # nIn /\ last'.op = "HandleStreamClose" /\ rpc[s].writer
          /\ ~wdeleted[s])
         => /\ rpc'[s].data_closed /\ rpc'[s].canceled
            /\ wlog'[s] # <<>>
            /\ wlog'[s][Len(wlog'[s])] = CloseEvent]_vars

C31_DispatcherNotStarved ==
  \A s \in Live :
    ((\E t \in Threads : SideOf(t) = s /\ th[t].pc \in {"rd_sleep", "wp_data"})
       /\ nIn < MaxIn /\ mode \in {"wclient", "wserver"})
      => /\ ENABLED TransportPacket(s,
                      Pkt("CallData", "", "", "a", FALSE, FALSE, "", FALSE))
         /\ ENABLED TransportPacket(s,
                      Pkt("CallCancel", "", "", "", FALSE, FALSE, "", TRUE))
         /\ ENABLED TransportClose(s, "EOF")

\* C32: every run of the packet callback or of the close callback that
\* ExecCall gave to open_stream_ finds the ClientRPC alive.
C32_CallbacksFindCallAlive ==
  mode = "exec" => ~exec.late

\* C33: on each side, once the writer was given a CallData with complete
\* or a CallCancel, local_completed_ is set.
C33_LocalCompletedAfterTerminal ==
  \A s \in Sides :
    (\E i \in DOMAIN wlog[s] :
       \/ wlog[s][i].body = "CallData" /\ wlog[s][i].complete
       \/ wlog[s][i].body = "CallCancel")
      => rpc[s].local_completed

\* C34: remote_err_ changes only from OK, to the condition of the step
\* that changes it: Unimplemented for a CallData with an error, the close
\* error for a stream close, Canceled for a CallCancel and for a local
\* teardown; once it is not OK no step changes it.
C34_RemoteErrWriteOnce ==
  [][\A s \in Sides :
       rpc'[s].remote_err # rpc[s].remote_err
         => /\ rpc[s].remote_err = "OK"
            /\ \A pkt \in InPackets :
                 (nIn' # nIn /\ TransportPacket(s, pkt))
                   => rpc'[s].remote_err =
                        IF pkt.body = "CallCancel" THEN "Canceled"
                        ELSE "Unimplemented"
            /\ \A e \in CloseErrs :
                 (nIn' # nIn /\ TransportClose(s, e))
                   => rpc'[s].remote_err = e
            /\ nIn' = nIn => rpc'[s].remote_err = "Canceled"]_vars

\* C34 witness: the stream closed with EOF, and a packet was handled on
\* the call afterwards; remote_err_ is still EOF.
C34_Witness ==
  \E s \in Live :
    /\ rpc[s].remote_err = "EOF"
    /\ nIn = 2
    /\ last.op = "HandlePacket" /\ last.res \in {"OK", "Completed"}

\* C35: a WriteCallData that finds no writer returns NilWriter and writes
\* nothing, and when its arguments are terminal local_completed_ is set
\* all the same; from then on local_completed_ stays set, a WriteCallData
\* that carries data returns Completed and writes nothing, and Close
\* writes no CallCancel.
C35_EarlyTerminalWriteLatches ==
  [][\A t \in Threads :
       LET s == SideOf(t)
           a == th[t].arg
           cancels(log) ==
             Len(SelectSeq(log, LAMBDA e : e.body = "CallCancel"))
       IN
       /\ (th[t].pc = "wd_lock" /\ ~rpc[s].writer /\ WdLock(t))
            => /\ last' = Ret("WriteCallData", "NilWriter")
               /\ wlog' = wlog
               /\ (a.complete \/ a.err # "OK") => rpc'[s].local_completed
       /\ rpc[s].local_completed => rpc'[s].local_completed
       /\ (rpc[s].local_completed /\ nOps' # nOps)
            => /\ \A d \in {MsgSendArg("a"), MsgSendArg("")} :
                    WriteCallData(t, d)
                      => /\ last'.res = "Completed"
                         /\ th'[t].pc = "idle"
                         /\ wlog' = wlog
               /\ Close(t) => cancels(wlog'[s]) = cancels(wlog[s])]_vars

\* C35 witness: the send side was ended before Start, Start succeeded, a
\* data write returned Completed and Close then ran; the writer holds the
\* CallStart and no CallData or CallCancel.
C35_Witness ==
  /\ mode = "early" /\ nOps = 3
  /\ started["client"] = "ok"
  /\ last.op = "Close" /\ closes["client"] = 1
  /\ Len(Packets(wlog["client"])) = 1
  /\ Packets(wlog["client"])[1].body = "CallStart"

\* C37: when release_fn has been called, the worker of the tunneled call
\* is not running the handler: it was never started or it has finished.
C37_ReleaseAfterWorker ==
  (mode = "tunnel" /\ tun.released > 0) => worker \in {"none", "done"}

\* C36: the bytes given to msg_handler are those of the data envelopes
\* received, in arrival order, and init and ack envelopes are given to
\* nobody; close_handler is called at most once, only after the outer
\* stream ended or msg_handler returned an Error, and no envelope is
\* read or forwarded from then on; once the loop has ended close_handler
\* is called; and after a clean end of the outer stream on a call that
\* received no cancel and no error and was not canceled locally, a ReadOne
\* that finds the queue empty returns EOF.
C36_PumpSafe ==
  /\ pump.fwd = [i \in DOMAIN SelectSeq(pump.env, LAMBDA e : e.body = "data")
                  |-> SelectSeq(pump.env, LAMBDA e : e.body = "data")[i].data]
  /\ pump.closes = (IF pump.pc = "closed" THEN 1 ELSE 0)
  /\ pump.pc \in {"closing", "closed"} => pump.end # "none"
  /\ pump.end = "EOF" => pump.cerr = "OK"
  /\ pump.end = "handler"
       => pump.fwd # <<>> /\ pump.cerr \notin {"OK", "none"}

C36_PumpSteps ==
  \A t \in Threads :
    /\ pump.pc \in {"closing", "closed"}
         => pump'.env = pump.env /\ pump'.fwd = pump.fwd
    /\ (/\ pump.pc = "closed" /\ pump.end = "EOF"
        /\ \A i \in DOMAIN pump.fwd :
             LET inner == ParseFromString(pump.fwd[i])
             IN inner.error = "" /\ ~inner.cancel
        /\ termRet["client"] = "none"
        /\ rpc["client"].data_queue = <<>>
        /\ th'[t].pc = "idle" /\ ReadOne(t))
         => last' = Ret("ReadOne", "EOF")

C38_NoUseAfterDestroy == ~ub

\* C39: on every side, when remote_err_ is not OK data_closed_ is set; and
\* when the latest Error a ReadOne returned is neither EOF nor OK,
\* data_closed_ is set.
C39_RemoteErrImpliesDataClosed ==
  \A s \in Sides :
    /\ rpc[s].remote_err # "OK" => rpc[s].data_closed
    /\ termRet[s] \notin {"none", "EOF"} => rpc[s].data_closed

\* C39 witness: a CallData with an error was handled and a ReadOne has
\* returned the remote error.
C39_Witness ==
  \E s \in Live :
    /\ rpc[s].remote_err = "Unimplemented"
    /\ rpc[s].data_closed
    /\ last = Ret("ReadOne", "Unimplemented")

\* C40: every CallStart, CallData and CallCancel a writer was given
\* passes ValidatePacket.
C40_EmittedPacketsValid ==
  \A s \in Sides : \A i \in DOMAIN wlog[s] :
    IsPacket(wlog[s][i]) => ValidatePacket(wlog[s][i]) = "OK"

====
